---- MODULE Spec2Model ----
(***************************************************************************)
(* A model of tsickle's annotation transformer (jsdocTransformer) and of   *)
(* its externs generator (createExterns).                                  *)
(*                                                                         *)
(* Syntax trees are records with a "kind" field, named after               *)
(* ts.SyntaxKind.  A source file is a sequence of top-level statements;    *)
(* the transformer visits them in order (ts.visitLexicalEnvironment) and   *)
(* concatenates what the visitor returns for each of them.                 *)
(***************************************************************************)
EXTENDS Integers, Sequences, FiniteSets, TLC

VARIABLES
    sourceFile,       \* the statements of the input file
    fileName,         \* sourceFile.fileName
    host,             \* AnnotatorHost and compiler options
    pos,              \* index of the next statement the transformer visits
    statements,       \* statements of the transformed file, so far
    trace,            \* trace[i]: the visitor's branch and result for statement i
    forwardDeclares,  \* ModuleTypeTranslator.forwardDeclares
    diagnostics,      \* the diagnostics list handed to jsdocTransformer
    warnings,         \* what host.logWarning has been called with
    pc,               \* "visit" while traversing, "done" once spliced
    epos,             \* index of the next statement createExterns looks at
    externsVisited,   \* indices of the statements createExterns visited
    output,           \* createExterns' output, as the pieces emitted so far
    externsDiagnostics, \* createExterns' own diagnostics list
    externsTrace      \* per visited statement: what its visit emitted

vars == <<sourceFile, fileName, host, pos, statements, trace,
          forwardDeclares, diagnostics, warnings, pc, epos, externsVisited,
          output, externsDiagnostics, externsTrace>>

(***************************************************************************)
(* Bounds of the model.                                                    *)
(***************************************************************************)
MaxMembers == 2
MaxParams == 2
MaxDecls == 2
MaxDepth == 2
MaxStmts == 2

(***************************************************************************)
(* Generic helpers on sequences.                                           *)
(***************************************************************************)
MapSeq(s, F(_)) == [i \in 1 .. Len(s) |-> F(s[i])]

RECURSIVE Flatten(_)
Flatten(ss) == IF ss = <<>> THEN <<>> ELSE Head(ss) \o Flatten(Tail(ss))

SeqsUpTo(S, n) == UNION {[1 .. k -> S] : k \in 0 .. n}

Some(s, P(_)) == \E i \in 1 .. Len(s) : P(s[i])

(***************************************************************************)
(* Names.                                                                  *)
(***************************************************************************)
NoName == [kind |-> "undefined", text |-> ""]
Identifier(t) == [kind |-> "Identifier", text |-> t]
StringLiteral(t) == [kind |-> "StringLiteral", text |-> t]
ComputedPropertyName(t) == [kind |-> "ComputedPropertyName", text |-> t]

getIdentifierText(name) == name.text

Alpha ==
    {"a", "b", "c", "d", "e", "f", "g", "h", "i", "j", "k", "l", "m",
     "n", "o", "p", "q", "r", "s", "t", "u", "v", "w", "x", "y", "z",
     "A", "B", "C", "D", "E", "F", "G", "H", "I", "J", "K", "L", "M",
     "N", "O", "P", "Q", "R", "S", "T", "U", "V", "W", "X", "Y", "Z"}
Digit == {"0", "1", "2", "3", "4", "5", "6", "7", "8", "9"}

CharAt(str, i) == SubSeq(str, i, i)

\* /^[a-zA-Z_][a-zA-Z0-9_]*$/.test(name)
isValidClosurePropertyName(name) ==
    /\ Len(name) >= 1
    /\ CharAt(name, 1) \in Alpha \cup {"_"}
    /\ \A i \in 2 .. Len(name) : CharAt(name, i) \in Alpha \cup Digit \cup {"_"}

(***************************************************************************)
(* Modifiers.  A node's modifiers are a set of keywords; "declare" is      *)
(* ts.ModifierFlags.Ambient.                                               *)
(***************************************************************************)
hasModifierFlag(node, flags) == node.modifiers \cap flags # {}

Ambient == {"declare"}

FIELD_DECLARATION_MODIFIERS == {"private", "protected", "public", "readonly"}

isAmbient_NodeOnly(path) == hasModifierFlag(Head(path), Ambient)

\* isAmbient walks node.parent: path is <<node, parent, grandparent, ...>>.
RECURSIVE isAmbient(_)
isAmbient(path) ==
    IF path = <<>> THEN FALSE
    ELSE IF hasModifierFlag(Head(path), Ambient) THEN TRUE
    ELSE isAmbient(Tail(path))

(***************************************************************************)
(* Comments and tags.  A synthesized comment is kept as the tag list       *)
(* handed to the serializer together with the set of tags to escape.       *)
(***************************************************************************)
Tag(tagName, type, text) == [tagName |-> tagName, type |-> type, text |-> text]

NoTags == {}
ZeroCode == 0
TAGS_CONFLICTING_WITH_TYPE == {"param", "return"}

toSynthesizedComment(tags, escapeExtraTags) ==
    [kind |-> "MultiLineCommentTrivia", text |-> "", tags |-> tags,
     escapeExtraTags |-> escapeExtraTags, hasTrailingNewLine |-> TRUE]

TextComment(kind, text) ==
    [kind |-> kind, text |-> text, tags |-> <<>>,
     escapeExtraTags |-> NoTags, hasTrailingNewLine |-> TRUE]

\* addCommentOn: the node's synthetic leading comments, one comment longer.
addCommentOn(leadingComments, tags, escapeExtraTags) ==
    Append(leadingComments, toSynthesizedComment(tags, escapeExtraTags))

createSingleLineComment(text) ==
    [kind |-> "NotEmittedStatement", modifiers |-> {}, leadingComments |-> <<>>,
     trailingComments |-> <<TextComment("SingleLineCommentTrivia", " " \o text)>>]

createMultiLineComment(text) ==
    [kind |-> "NotEmittedStatement", modifiers |-> {}, leadingComments |-> <<>>,
     trailingComments |-> <<TextComment("MultiLineCommentTrivia", " " \o text)>>]

\* str.replace(/\/\*/g, '__'): leftmost matches, not overlapping.
RECURSIVE ReplaceAll(_, _, _)
ReplaceAll(str, pat, by) ==
    IF Len(str) < Len(pat) THEN str
    ELSE IF SubSeq(str, 1, Len(pat)) = pat
         THEN by \o ReplaceAll(SubSeq(str, Len(pat) + 1, Len(str)), pat, by)
         ELSE CharAt(str, 1) \o ReplaceAll(SubSeq(str, 2, Len(str)), pat, by)

escapeForComment_OpenOnly(str) == ReplaceAll(str, "/*", "__")

escapeForComment(str) == ReplaceAll(ReplaceAll(str, "/*", "__"), "*/", "__")

(***************************************************************************)
(* Declarations of the input.                                              *)
(***************************************************************************)
\* A constructor parameter.  jsdoc holds the tags of its leading comment.
Parameter(name, modifiers, type, jsdoc) ==
    [kind |-> "Parameter", name |-> name, modifiers |-> modifiers,
     type |-> type, blacklisted |-> FALSE, questionToken |-> FALSE,
     typeModule |-> "", jsdoc |-> jsdoc, exportingDecorator |-> FALSE,
     text |-> name.text \o ": " \o type]

\* A member of a class or of an interface.
Member(kind, name, modifiers, parameters, body, type, text) ==
    [kind |-> kind, name |-> name, modifiers |-> modifiers,
     parameters |-> parameters, body |-> body, type |-> type,
     blacklisted |-> FALSE, questionToken |-> FALSE, typeModule |-> "",
     jsdoc |-> <<>>, exportingDecorator |-> FALSE, text |-> text]

Optional(member) == [member EXCEPT !.questionToken = TRUE]
Exported(member) == [member EXCEPT !.exportingDecorator = TRUE]

isPropertyDeclaration(member) == member.kind = "PropertyDeclaration"
isPropertySignature(member) == member.kind = "PropertySignature"
isInterfaceDeclaration(node) == node.kind = "InterfaceDeclaration"

(***************************************************************************)
(* The ModuleTypeTranslator, as far as the transformer uses it.            *)
(***************************************************************************)
\* typeToClosure: the type string of the node, `?` in untyped mode and for
\* blacklisted types.
typeToClosure(node) ==
    IF host.untyped \/ node.blacklisted THEN "?" ELSE node.type

isBlackListed(node) == node.blacklisted

\* The forward declare typeToClosure asks for when it names a type of
\* another module.
TypeForward(node) ==
    IF host.untyped \/ node.blacklisted \/ node.typeModule = "" THEN <<>>
    ELSE <<[modulePath |-> node.typeModule, explicitlyImported |-> FALSE,
            defaultImport |-> FALSE]>>

\* getJSDoc: the tags of the node's structured leading comment.
getJSDoc(node) == node.jsdoc

hasExportingDecorator(node) == node.exportingDecorator

\* getFunctionTypeJSDoc for one declaration: a param tag per parameter and a
\* return tag; the parameter names are those of the declaration.
getFunctionTypeJSDocTags(fnDecl, extraTags) ==
    extraTags
    \o MapSeq(fnDecl.parameters, LAMBDA p : Tag("param", typeToClosure(p), p.name.text))
    \o <<Tag("return", IF host.untyped THEN "?" ELSE fnDecl.type, "")>>

getFunctionTypeJSDocParamNames(fnDecl) ==
    MapSeq(fnDecl.parameters, LAMBDA p : p.name.text)

\* A diagnostic of category Error (mtt.error) or Warning (debugWarn).
Diagnostic(messageText, category) ==
    [messageText |-> messageText, category |-> category, code |-> ZeroCode]

\* debugWarn reaches the host only if it accepts warnings.
debugWarn(log, messages) ==
    IF ~host.logWarning THEN log
    ELSE log \o MapSeq(messages, LAMBDA m : Diagnostic(m, "Warning"))

\* The list started anew on every call.
error_Replacing(list, messages) ==
    MapSeq(messages, LAMBDA m : Diagnostic(m, "Error"))

error(list, messages) ==
    list \o MapSeq(messages, LAMBDA m : Diagnostic(m, "Error"))

(***************************************************************************)
(* createMemberTypeDeclaration and its helpers.                            *)
(***************************************************************************)
\* null is the empty string: the code tests names with `!name`.
propertyName(prop) ==
    IF prop.name.kind = "undefined" THEN ""
    ELSE IF prop.name.kind = "Identifier" THEN getIdentifierText(prop.name)
    ELSE IF prop.name.kind = "StringLiteral"
         THEN IF ~isValidClosurePropertyName(prop.name.text) THEN ""
              ELSE prop.name.text
    ELSE ""

PropertyAccess(expr, name) ==
    [kind |-> "PropertyAccessExpression", expression |-> expr,
     name |-> Identifier(name)]

ExpressionStatement(expression, leadingComments) ==
    [kind |-> "ExpressionStatement", expression |-> expression,
     leadingComments |-> leadingComments]

\* The type of a property: `?|undefined` for an optional property of type `?`.
ClosurePropertyType(prop) ==
    IF prop.questionToken /\ typeToClosure(prop) = "?"
    THEN typeToClosure(prop) \o "|undefined"
    ELSE typeToClosure(prop)

\* Every property declared on the prototype, the static ones too.
createClosurePropertyDeclaration_OnPrototype(expr, prop) ==
    IF propertyName(prop) = ""
    THEN createMultiLineComment(
             "Skipping unnamed member:\n" \o escapeForComment(prop.text))
    ELSE ExpressionStatement(
             PropertyAccess(
                 IF expr.kind = "Identifier"
                 THEN PropertyAccess(expr, "prototype") ELSE expr,
                 propertyName(prop)),
             addCommentOn(<<>>,
                 getJSDoc(prop)
                 \o <<Tag("type", ClosurePropertyType(prop), "")>>
                 \o (IF hasExportingDecorator(prop)
                     THEN <<Tag("export", "", "")>> ELSE <<>>),
                 TAGS_CONFLICTING_WITH_TYPE))

createClosurePropertyDeclaration(expr, prop) ==
    IF propertyName(prop) = ""
    THEN createMultiLineComment(
             "Skipping unnamed member:\n" \o escapeForComment(prop.text))
    ELSE ExpressionStatement(
             PropertyAccess(expr, propertyName(prop)),
             addCommentOn(<<>>,
                 getJSDoc(prop)
                 \o <<Tag("type", ClosurePropertyType(prop), "")>>
                 \o (IF hasExportingDecorator(prop)
                     THEN <<Tag("export", "", "")>> ELSE <<>>),
                 TAGS_CONFLICTING_WITH_TYPE))

\* The members createMemberTypeDeclaration collects, by list.
Ctors(typeDecl) ==
    SelectSeq(typeDecl.members, LAMBDA m : m.kind = "Constructor")

StaticProps(typeDecl) ==
    SelectSeq(typeDecl.members,
        LAMBDA m : /\ isPropertyDeclaration(m) \/ isPropertySignature(m)
                   /\ hasModifierFlag(m, {"static"}))

NonStaticProps(typeDecl) ==
    SelectSeq(typeDecl.members,
        LAMBDA m : /\ isPropertyDeclaration(m) \/ isPropertySignature(m)
                   /\ ~hasModifierFlag(m, {"static"}))

IsMethodLike(m) ==
    m.kind \in {"MethodDeclaration", "MethodSignature", "GetAccessor", "SetAccessor"}

AbstractMethods(typeDecl) ==
    SelectSeq(typeDecl.members,
        LAMBDA m : /\ IsMethodLike(m)
                   /\ \/ hasModifierFlag(m, {"abstract"})
                      \/ isInterfaceDeclaration(typeDecl))

Unhandled(typeDecl) ==
    SelectSeq(typeDecl.members,
        LAMBDA m : /\ m.kind # "Constructor"
                   /\ ~(isPropertyDeclaration(m) \/ isPropertySignature(m))
                   /\ ~IsMethodLike(m))

ParamProps_LastConstructor(typeDecl) ==
    IF Len(Ctors(typeDecl)) > 0
    THEN SelectSeq(Ctors(typeDecl)[Len(Ctors(typeDecl))].parameters,
             LAMBDA p : hasModifierFlag(p, FIELD_DECLARATION_MODIFIERS))
    ELSE <<>>

\* The parameter properties of the first constructor.
ParamProps(typeDecl) ==
    IF Len(Ctors(typeDecl)) > 0
    THEN SelectSeq(Ctors(typeDecl)[1].parameters,
             LAMBDA p : hasModifierFlag(p, FIELD_DECLARATION_MODIFIERS))
    ELSE <<>>

NullNode == [kind |-> "null"]

AbstractFnDecl(instancePropAccess, fnDecl) ==
    ExpressionStatement(
        [kind |-> "Assignment",
         left |-> PropertyAccess(instancePropAccess, propertyName(fnDecl)),
         right |-> [kind |-> "FunctionExpression",
                    parameters |-> getFunctionTypeJSDocParamNames(fnDecl)]],
        <<toSynthesizedComment(
            getFunctionTypeJSDocTags(fnDecl, <<>>)
            \o (IF hasExportingDecorator(fnDecl)
                THEN <<Tag("export", "", "")>> ELSE <<>>),
            NoTags)>>)

MemberTypeDeclarationIsEmpty(typeDecl) ==
    /\ Len(NonStaticProps(typeDecl)) = 0
    /\ Len(ParamProps(typeDecl)) = 0
    /\ Len(StaticProps(typeDecl)) = 0
    /\ Len(AbstractMethods(typeDecl)) = 0

createMemberTypeDeclaration(typeDecl) ==
    IF MemberTypeDeclarationIsEmpty(typeDecl) THEN NullNode
    ELSE IF typeDecl.name.kind = "undefined" THEN NullNode
    ELSE LET className == getIdentifierText(typeDecl.name)
             staticPropAccess == Identifier(className)
             instancePropAccess == PropertyAccess(staticPropAccess, "prototype")
         IN [kind |-> "IfStatement",
             expression |-> [kind |-> "FalseKeyword"],
             thenStatement |->
                 MapSeq(StaticProps(typeDecl),
                     LAMBDA p : createClosurePropertyDeclaration(staticPropAccess, p))
                 \o MapSeq(NonStaticProps(typeDecl),
                     LAMBDA p : createClosurePropertyDeclaration(instancePropAccess, p))
                 \o MapSeq(ParamProps(typeDecl),
                     LAMBDA p : createClosurePropertyDeclaration(instancePropAccess, p))
                 \o MapSeq(Unhandled(typeDecl),
                     LAMBDA p : createMultiLineComment(
                         "Skipping unhandled member: " \o escapeForComment(p.text)))
                 \o MapSeq(
                     SelectSeq(AbstractMethods(typeDecl),
                         LAMBDA f : propertyName(f) # ""),
                     LAMBDA f : AbstractFnDecl(instancePropAccess, f))]

\* What createMemberTypeDeclaration passes to mtt.debugWarn.
MemberTypeDeclarationWarnings(typeDecl) ==
    IF MemberTypeDeclarationIsEmpty(typeDecl) THEN <<>>
    ELSE IF typeDecl.name.kind = "undefined"
    THEN <<"cannot add types on unnamed declarations">>
    ELSE MapSeq(
             SelectSeq(StaticProps(typeDecl) \o NonStaticProps(typeDecl)
                           \o ParamProps(typeDecl),
                 LAMBDA p : propertyName(p) = ""),
             LAMBDA p : "handle unnamed member:\n" \o escapeForComment(p.text))

\* The forward declares the types of the declared properties ask for.
MemberTypeDeclarationForward(typeDecl) ==
    IF MemberTypeDeclarationIsEmpty(typeDecl) \/ typeDecl.name.kind = "undefined"
    THEN <<>>
    ELSE Flatten(MapSeq(
             SelectSeq(StaticProps(typeDecl) \o NonStaticProps(typeDecl)
                           \o ParamProps(typeDecl),
                 LAMBDA p : propertyName(p) # ""),
             TypeForward))

\* What createMemberTypeDeclaration passes to mtt.error.
MemberTypeDeclarationErrors(typeDecl) ==
    IF MemberTypeDeclarationIsEmpty(typeDecl) \/ typeDecl.name.kind = "undefined"
    THEN <<>>
    ELSE MapSeq(
             SelectSeq(AbstractMethods(typeDecl), LAMBDA f : propertyName(f) = ""),
             LAMBDA f : "anonymous abstract function")

(***************************************************************************)
(* Symbols of the type checker.  target holds the symbol an alias or a     *)
(* type alias leads to (none: the empty sequence).                         *)
(***************************************************************************)
Symbol(name, flags, target) ==
    [kind |-> "Symbol", name |-> name, flags |-> flags, target |-> target,
     blacklisted |-> FALSE]

NoSymbol ==
    [kind |-> "undefined", name |-> "", flags |-> {}, target |-> <<>>,
     blacklisted |-> FALSE]

\* getDeclaredTypeOfSymbol(sym).symbol, for a type alias.
DeclaredTypeSymbol(sym) == IF sym.target = <<>> THEN NoSymbol ELSE sym.target[1]

\* getAliasedSymbol: the symbol at the end of the alias chain.
RECURSIVE getAliasedSymbol(_)
getAliasedSymbol(sym) ==
    IF "Alias" \in sym.flags /\ sym.target # <<>>
    THEN getAliasedSymbol(sym.target[1])
    ELSE sym

symbolToString(sym) == sym.name

(***************************************************************************)
(* maybeAddTemplateClause and maybeAddHeritageClauses.                     *)
(***************************************************************************)
RECURSIVE Join(_, _)
Join(names, sep) ==
    IF names = <<>> THEN ""
    ELSE IF Len(names) = 1 THEN names[1]
    ELSE names[1] \o sep \o Join(Tail(names), sep)

maybeAddTemplateClause(docTags, decl) ==
    IF decl.typeParameters = <<>> THEN docTags
    ELSE Append(docTags, Tag("template", "", Join(decl.typeParameters, ", ")))

HeritageClause(token, types) == [token |-> token, types |-> types]
HeritageType(text, symbol) == [text |-> text, symbol |-> symbol]

\* The symbol the tag of a heritage type is decided on.
HeritageAlias(impl) ==
    LET sym == impl.symbol
        alias == IF "TypeAlias" \in sym.flags THEN DeclaredTypeSymbol(sym) ELSE sym
    IN IF "Alias" \in alias.flags THEN getAliasedSymbol(alias) ELSE alias

NoteTag ==
    Tag("", "", "NOTE: tsickle could not resolve supertype, "
                    \o "class definition may be incomplete.\n")

\* Heritage tags named after the token of the clause alone.
HeritageTypeTags_ByToken(path, heritage, impl) ==
    IF impl.symbol.kind = "undefined" THEN <<NoteTag>>
    ELSE IF HeritageAlias(impl).kind = "undefined"
            \/ HeritageAlias(impl).blacklisted THEN <<>>
    ELSE <<Tag(heritage.token, symbolToString(HeritageAlias(impl)), "")>>

\* The tags one heritage type adds: none, the note, or extends/implements.
HeritageTypeTags(path, heritage, impl) ==
    LET decl == Head(path)
        isClass == decl.kind = "ClassDeclaration"
        classHasSuperClass ==
            isClass /\ Some(decl.heritageClauses, LAMBDA hc : hc.token = "extends")
        alias == HeritageAlias(impl)
    IN IF impl.symbol.kind = "undefined" THEN <<NoteTag>>
       ELSE IF "TypeAlias" \in impl.symbol.flags
               /\ DeclaredTypeSymbol(impl.symbol).kind = "undefined" THEN <<>>
       ELSE IF alias.blacklisted THEN <<>>
       ELSE IF "Class" \in alias.flags
            THEN IF ~isClass THEN <<>>
                 ELSE IF classHasSuperClass /\ heritage.token # "extends" THEN <<>>
                 ELSE <<Tag("extends", symbolToString(alias), "")>>
       ELSE IF "Value" \in alias.flags THEN <<>>
       ELSE <<Tag(IF decl.kind = "InterfaceDeclaration" THEN "extends"
                  ELSE "implements", symbolToString(alias), "")>>

HeritageClauseIsProcessed_EveryClause(path, heritage) == TRUE

HeritageClauseIsProcessed_NoClassExtends(path, heritage) ==
    ~(Head(path).kind = "ClassDeclaration" /\ heritage.token # "implements")

\* The heritage clauses maybeAddHeritageClauses does not skip.
HeritageClauseIsProcessed(path, heritage) ==
    ~(/\ Head(path).kind = "ClassDeclaration"
      /\ heritage.token # "implements"
      /\ ~isAmbient(path))

maybeAddHeritageClauses(docTags, path) ==
    docTags \o Flatten(MapSeq(Head(path).heritageClauses,
        LAMBDA heritage :
            IF ~HeritageClauseIsProcessed(path, heritage) THEN <<>>
            ELSE Flatten(MapSeq(heritage.types,
                     LAMBDA impl : HeritageTypeTags(path, heritage, impl)))))

\* What maybeAddHeritageClauses passes to mtt.debugWarn.
HeritageWarnings(path) ==
    Flatten(MapSeq(Head(path).heritageClauses,
        LAMBDA heritage :
            IF ~HeritageClauseIsProcessed(path, heritage) THEN <<>>
            ELSE MapSeq(
                     SelectSeq(heritage.types,
                         LAMBDA impl : impl.symbol.kind = "undefined"),
                     LAMBDA impl : "could not resolve supertype: " \o impl.text)))

(***************************************************************************)
(* What the visitor returns for a node: the nodes replacing it and what    *)
(* it asked of the ModuleTypeTranslator on the way.                        *)
(***************************************************************************)
Result(nodes, forward, errors, warns) ==
    [nodes |-> nodes, forward |-> forward, errors |-> errors, warns |-> warns]

Unchanged(node) == Result(<<node>>, <<>>, <<>>, <<>>)

\* The results of visiting a list of nodes, put together in order.
RECURSIVE Combine(_)
Combine(results) ==
    IF results = <<>> THEN Result(<<>>, <<>>, <<>>, <<>>)
    ELSE LET r == Head(results)
             rest == Combine(Tail(results))
         IN Result(r.nodes \o rest.nodes, r.forward \o rest.forward,
                   r.errors \o rest.errors, r.warns \o rest.warns)

(***************************************************************************)
(* Class and interface declarations.                                       *)
(***************************************************************************)
ClassDeclaration(name, modifiers, heritageClauses, members) ==
    [kind |-> "ClassDeclaration", name |-> name, modifiers |-> modifiers,
     typeParameters |-> <<>>, heritageClauses |-> heritageClauses,
     members |-> members, symbol |-> NoSymbol, jsdoc |-> <<>>]

InterfaceDeclaration(name, modifiers, heritageClauses, members, symbol) ==
    [kind |-> "InterfaceDeclaration", name |-> name, modifiers |-> modifiers,
     typeParameters |-> <<>>, heritageClauses |-> heritageClauses,
     members |-> members, symbol |-> symbol, jsdoc |-> <<>>]

IsFunctionLike(node) ==
    node.kind \in {"Constructor", "FunctionDeclaration", "MethodDeclaration",
                   "GetAccessor", "SetAccessor"}

\* case Parameter: the comments of a parameter property are dropped.
visitParameter(paramDecl) ==
    IF hasModifierFlag(paramDecl, FIELD_DECLARATION_MODIFIERS)
    THEN [paramDecl EXCEPT !.jsdoc = <<>>]
    ELSE paramDecl

\* addJsDocToFunctionLikeDeclaration: nothing without a body.
addJsDocToFunctionLikeDeclaration(fnDecl) ==
    IF ~fnDecl.body THEN fnDecl
    ELSE [fnDecl EXCEPT !.jsdoc =
             getFunctionTypeJSDocTags(fnDecl,
                 IF hasExportingDecorator(fnDecl)
                 THEN <<Tag("export", "", "")>> ELSE <<>>)]

\* The visitor on a class member, followed by ts.visitEachChild.
visitMember(member) ==
    IF IsFunctionLike(member)
    THEN [addJsDocToFunctionLikeDeclaration(member) EXCEPT
             !.parameters = MapSeq(member.parameters, visitParameter)]
    ELSE member

\* The member-type-declaration made after the children were visited.
visitClassDeclaration_ConstructorFirst(path) ==
    LET classDecl == Head(path)
        abstractTags ==
            IF hasModifierFlag(classDecl, {"abstract"})
            THEN Append(classDecl.jsdoc, Tag("abstract", "", ""))
            ELSE classDecl.jsdoc
        templateTags == maybeAddTemplateClause(abstractTags, classDecl)
        tags == IF ~host.untyped THEN maybeAddHeritageClauses(templateTags, path)
                ELSE templateTags
        visited == [classDecl EXCEPT !.jsdoc = tags,
                       !.members = MapSeq(classDecl.members, visitMember)]
        memberDecl == createMemberTypeDeclaration(visited)
    IN Result(
           IF memberDecl.kind # "null" THEN <<visited, memberDecl>> ELSE <<visited>>,
           MemberTypeDeclarationForward(classDecl),
           MemberTypeDeclarationErrors(classDecl),
           (IF ~host.untyped THEN HeritageWarnings(path) ELSE <<>>)
               \o MemberTypeDeclarationWarnings(classDecl))

visitClassDeclaration(path) ==
    LET classDecl == Head(path)
        abstractTags ==
            IF hasModifierFlag(classDecl, {"abstract"})
            THEN Append(classDecl.jsdoc, Tag("abstract", "", ""))
            ELSE classDecl.jsdoc
        templateTags == maybeAddTemplateClause(abstractTags, classDecl)
        tags == IF ~host.untyped THEN maybeAddHeritageClauses(templateTags, path)
                ELSE templateTags
        memberDecl == createMemberTypeDeclaration(classDecl)
        visited == [classDecl EXCEPT !.jsdoc = tags,
                       !.members = MapSeq(classDecl.members, visitMember)]
    IN Result(
           IF memberDecl.kind # "null" THEN <<visited, memberDecl>> ELSE <<visited>>,
           MemberTypeDeclarationForward(classDecl),
           MemberTypeDeclarationErrors(classDecl),
           (IF ~host.untyped THEN HeritageWarnings(path) ELSE <<>>)
               \o MemberTypeDeclarationWarnings(classDecl))

symbolIsValue_Never(sym) == FALSE

\* sym.flags & ts.SymbolFlags.Value
symbolIsValue(sym) == "Value" \in sym.flags

FunctionDeclaration(name, modifiers, leadingComments) ==
    [kind |-> "FunctionDeclaration", name |-> name, modifiers |-> modifiers,
     parameters |-> <<>>, body |-> TRUE, leadingComments |-> leadingComments]

visitInterfaceDeclaration(path) ==
    LET iface == Head(path)
        sym == iface.symbol
        recordTags == Append(getJSDoc(iface), Tag("record", "", ""))
        templateTags == maybeAddTemplateClause(recordTags, iface)
        tags == IF ~host.untyped THEN maybeAddHeritageClauses(templateTags, path)
                ELSE templateTags
        decl == FunctionDeclaration(getIdentifierText(iface.name),
                    IF hasModifierFlag(iface, {"export"}) THEN {"export"} ELSE {},
                    addCommentOn(<<>>, tags, NoTags))
        memberDecl == createMemberTypeDeclaration(iface)
    IN IF sym.kind = "undefined"
       THEN Result(<<>>, <<>>, <<"interface with no symbol">>, <<>>)
       ELSE IF symbolIsValue(sym)
       THEN Result(
                <<createSingleLineComment(
                    "WARNING: interface has both a type and a value, skipping emit")>>,
                <<>>, <<>>,
                <<"type/symbol conflict for " \o sym.name \o ", using {?} for now">>)
       ELSE Result(
                IF memberDecl.kind # "null" THEN <<decl, memberDecl>> ELSE <<decl>>,
                MemberTypeDeclarationForward(iface),
                MemberTypeDeclarationErrors(iface),
                (IF ~host.untyped THEN HeritageWarnings(path) ELSE <<>>)
                    \o MemberTypeDeclarationWarnings(iface))

(***************************************************************************)
(* Expressions.  A type of the checker is the sequence of its union        *)
(* members; typeToClosure renders it.                                      *)
(***************************************************************************)
IdentifierExpression(text, type) ==
    [kind |-> "Identifier", text |-> text, type |-> type]

Assertion(kind, type, expression) ==
    [kind |-> kind, type |-> type, expression |-> expression]

NonNullExpression(expression) ==
    [kind |-> "NonNullExpression", expression |-> expression]

CallExpression(expression, type) ==
    [kind |-> "CallExpression", expression |-> expression, type |-> type]

IsAssertion(e) == e.kind \in {"TypeAssertionExpression", "AsExpression"}

getNonNullableType(type) ==
    SelectSeq(type, LAMBDA t : t \notin {"null", "undefined"})

RECURSIVE getTypeAtLocation(_)
getTypeAtLocation(e) ==
    IF e.kind = "NonNullExpression"
    THEN getNonNullableType(getTypeAtLocation(e.expression))
    ELSE e.type

typeToClosureOf(type) == IF host.untyped THEN "?" ELSE Join(type, "|")

ParenthesizedExpression(expression, leadingComments) ==
    [kind |-> "ParenthesizedExpression", expression |-> expression,
     leadingComments |-> leadingComments]

createClosureCast_KeepsNewLine(expression, type) ==
    LET comment == toSynthesizedComment(
                       <<Tag("type", typeToClosureOf(type), "")>>, NoTags)
        inner == ParenthesizedExpression(expression, <<comment>>)
    IN ParenthesizedExpression(inner, <<>>)

createClosureCast(expression, type) ==
    LET comment == toSynthesizedComment(
                       <<Tag("type", typeToClosureOf(type), "")>>, NoTags)
        inner == ParenthesizedExpression(expression,
                     <<[comment EXCEPT !.hasTrailingNewLine = FALSE]>>)
    IN ParenthesizedExpression(inner, <<>>)

\* The visitor on an expression: visitAssertionExpression,
\* visitNonNullExpression, and ts.visitEachChild for the other kinds.
RECURSIVE visitExpression(_)
visitExpression(e) ==
    IF IsAssertion(e)
    THEN createClosureCast(visitExpression(e.expression), e.type)
    ELSE IF e.kind = "NonNullExpression"
    THEN createClosureCast(visitExpression(e.expression),
             getNonNullableType(getTypeAtLocation(e.expression)))
    ELSE IF e.kind \in {"CallExpression", "ParenthesizedExpression"}
    THEN [e EXCEPT !.expression = visitExpression(e.expression)]
    ELSE e

InputExpressionStatement(expression) ==
    [kind |-> "ExpressionStatement", modifiers |-> {}, expression |-> expression,
     leadingComments |-> <<>>]

(***************************************************************************)
(* Variable statements.                                                    *)
(***************************************************************************)
\* initializer: <<>> or <<expression>>.  typeModule: the module the type's
\* symbol is declared in, "" when it is visible without an import.
VariableDeclaration(name, initializer, type, blacklisted, typeModule) ==
    [kind |-> "VariableDeclaration", name |-> name, initializer |-> initializer,
     type |-> type, blacklisted |-> blacklisted, typeModule |-> typeModule]

\* syntheticLeadingComments: <<>> (undefined) or <<the comments>>.
VariableStatement(modifiers, flags, declarations, syntheticLeadingComments, jsdoc) ==
    [kind |-> "VariableStatement", modifiers |-> modifiers, flags |-> flags,
     declarations |-> declarations,
     syntheticLeadingComments |-> syntheticLeadingComments, jsdoc |-> jsdoc]

isIdentifier(name) == name.kind = "Identifier"

\* c.text[0] !== '*'
IsNotJSDocComment(c) == Len(c.text) = 0 \/ CharAt(c.text, 1) # "*"

NotEmittedStatement(leadingComments) ==
    [kind |-> "NotEmittedStatement", modifiers |-> {},
     leadingComments |-> leadingComments, trailingComments |-> <<>>]

visitVariableDeclaration(decl) ==
    [decl EXCEPT !.initializer = MapSeq(decl.initializer, visitExpression)]

VariableLocalTags_OnEveryStatement(varStmt, i) ==
    LET decl == varStmt.declarations[i]
        blackListedInitialized == decl.initializer # <<>> /\ isBlackListed(decl)
    IN getJSDoc(varStmt)
       \o (IF isIdentifier(decl.name) /\ ~blackListedInitialized
           THEN <<Tag("type", typeToClosure(decl), "")>>
           ELSE <<>>)

VariableLocalTags_BlackListedUntyped(varStmt, i) ==
    LET decl == varStmt.declarations[i]
    IN (IF i = 1 THEN getJSDoc(varStmt) ELSE <<>>)
       \o (IF isIdentifier(decl.name) /\ ~isBlackListed(decl)
           THEN <<Tag("type", typeToClosure(decl), "")>>
           ELSE <<>>)

\* The tags of the i-th statement made of varStmt.
VariableLocalTags(varStmt, i) ==
    LET decl == varStmt.declarations[i]
        blackListedInitialized == decl.initializer # <<>> /\ isBlackListed(decl)
    IN (IF i = 1 THEN getJSDoc(varStmt) ELSE <<>>)
       \o (IF isIdentifier(decl.name) /\ ~blackListedInitialized
           THEN <<Tag("type", typeToClosure(decl), "")>>
           ELSE <<>>)

visitVariableStatement(path) ==
    LET varStmt == Head(path)
        leading == varStmt.syntheticLeadingComments
        commentHolder ==
            IF leading # <<>>
            THEN <<NotEmittedStatement(SelectSeq(leading[1], IsNotJSDocComment))>>
            ELSE <<>>
        newStmt(i) ==
            VariableStatement(varStmt.modifiers, varStmt.flags,
                <<visitVariableDeclaration(varStmt.declarations[i])>>,
                IF Len(VariableLocalTags(varStmt, i)) > 0
                THEN <<addCommentOn(<<>>, VariableLocalTags(varStmt, i),
                           TAGS_CONFLICTING_WITH_TYPE)>>
                ELSE <<>>,
                <<>>)
        typed(i) ==
            LET decl == varStmt.declarations[i]
            IN IF isIdentifier(decl.name)
                  /\ ~(decl.initializer # <<>> /\ isBlackListed(decl))
               THEN TypeForward(decl) ELSE <<>>
    IN Result(
           commentHolder \o [i \in 1 .. Len(varStmt.declarations) |-> newStmt(i)],
           Flatten([i \in 1 .. Len(varStmt.declarations) |-> typed(i)]),
           <<>>, <<>>)

(***************************************************************************)
(* Type aliases and imports.                                               *)
(***************************************************************************)
TypeAliasDeclaration(name, modifiers, symbol, type, typeModule) ==
    [kind |-> "TypeAliasDeclaration", name |-> name, modifiers |-> modifiers,
     symbol |-> symbol, typeParameters |-> <<>>, type |-> type,
     blacklisted |-> FALSE, typeModule |-> typeModule, jsdoc |-> <<>>]

visitTypeAliasDeclaration_AnyModule(path) ==
    LET typeAlias == Head(path)
        typeName == typeAlias.name.text
        typeStr == IF host.untyped THEN "?" ELSE typeToClosure(typeAlias)
        decl == ExpressionStatement(
                    PropertyAccess(Identifier("exports"), typeName),
                    addCommentOn(<<>>,
                        Append(getJSDoc(typeAlias), Tag("typedef", typeStr, "")),
                        TAGS_CONFLICTING_WITH_TYPE))
    IN IF symbolIsValue(typeAlias.symbol) THEN Result(<<>>, <<>>, <<>>, <<>>)
       ELSE IF ~hasModifierFlag(typeAlias, {"export"})
       THEN Result(<<>>, <<>>, <<>>, <<>>)
       ELSE Result(<<decl>>, TypeForward(typeAlias), <<>>, <<>>)

visitTypeAliasDeclaration(path) ==
    LET typeAlias == Head(path)
        typeName == typeAlias.name.text
        typeStr == IF host.untyped THEN "?" ELSE typeToClosure(typeAlias)
        decl == ExpressionStatement(
                    PropertyAccess(Identifier("exports"), typeName),
                    addCommentOn(<<>>,
                        Append(getJSDoc(typeAlias), Tag("typedef", typeStr, "")),
                        TAGS_CONFLICTING_WITH_TYPE))
    IN IF symbolIsValue(typeAlias.symbol) THEN Result(<<>>, <<>>, <<>>, <<>>)
       ELSE IF ~hasModifierFlag(typeAlias, {"export"})
       THEN Result(<<>>, <<>>, <<>>, <<>>)
       ELSE IF host.module # "CommonJS" THEN Result(<<>>, <<>>, <<>>, <<>>)
       ELSE Result(<<decl>>, TypeForward(typeAlias), <<>>, <<>>)

\* importClause: <<>> or <<the clause>>; the clause's name is set for a
\* default import.  resolvesToIndex: the specifier names a directory.
ImportDeclaration(importClause, moduleSpecifier, symbol, resolvesToIndex) ==
    [kind |-> "ImportDeclaration", modifiers |-> {}, importClause |-> importClause,
     moduleSpecifier |-> moduleSpecifier, symbol |-> symbol,
     resolvesToIndex |-> resolvesToIndex]

ImportClause(name) == [name |-> name]

\* googmodule.resolveIndexShorthand
resolveIndexShorthand(importDecl) ==
    IF host.convertIndexImportShorthand /\ importDecl.resolvesToIndex
    THEN importDecl.moduleSpecifier \o "/index"
    ELSE importDecl.moduleSpecifier

visitImportDeclaration_ScriptsToo(path) ==
    LET importDecl == Head(path)
    IN IF importDecl.importClause = <<>> THEN Unchanged(importDecl)
       ELSE Result(<<importDecl>>,
                <<[modulePath |-> resolveIndexShorthand(importDecl),
                   explicitlyImported |-> TRUE,
                   defaultImport |-> importDecl.importClause[1].name # ""]>>,
                <<>>, <<>>)

visitImportDeclaration(path) ==
    LET importDecl == Head(path)
    IN IF importDecl.importClause = <<>> THEN Unchanged(importDecl)
       ELSE IF importDecl.symbol.kind = "undefined" THEN Unchanged(importDecl)
       ELSE Result(<<importDecl>>,
                <<[modulePath |-> resolveIndexShorthand(importDecl),
                   explicitlyImported |-> TRUE,
                   defaultImport |-> importDecl.importClause[1].name # ""]>>,
                <<>>, <<>>)

\* mtt.forwardDeclare: a module already registered keeps its alias, the
\* flags are or-ed.
forwardDeclare(declares, request) ==
    IF \E i \in 1 .. Len(declares) : declares[i].modulePath = request.modulePath
    THEN [i \in 1 .. Len(declares) |->
             IF declares[i].modulePath = request.modulePath
             THEN [declares[i] EXCEPT
                      !.explicitlyImported = @ \/ request.explicitlyImported,
                      !.defaultImport = @ \/ request.defaultImport]
             ELSE declares[i]]
    ELSE Append(declares,
             [kind |-> "ForwardDeclare",
              modulePath |-> request.modulePath,
              localAlias |-> "tsickle_forward_declare_"
                                 \o ToString(Len(declares) + 1),
              explicitlyImported |-> request.explicitlyImported,
              defaultImport |-> request.defaultImport])

RECURSIVE forwardDeclareAll(_, _)
forwardDeclareAll(declares, requests) ==
    IF requests = <<>> THEN declares
    ELSE forwardDeclareAll(forwardDeclare(declares, Head(requests)), Tail(requests))

\* mtt.insertForwardDeclares: after a leading comment holder, if any.
insertForwardDeclares(stmts, declares) ==
    LET insertion ==
            IF Len(stmts) > 0 /\ stmts[1].kind = "NotEmittedStatement" THEN 1 ELSE 0
    IN SubSeq(stmts, 1, insertion) \o declares
           \o SubSeq(stmts, insertion + 1, Len(stmts))

(***************************************************************************)
(* Namespaces and the visitor.                                             *)
(***************************************************************************)
ModuleDeclaration(name, modifiers, body) ==
    [kind |-> "ModuleDeclaration", name |-> name, modifiers |-> modifiers,
     body |-> body]

RECURSIVE visitor(_)
visitor(path) ==
    LET node == Head(path)
    IN IF isAmbient(path) THEN Unchanged(node)
       ELSE IF node.kind = "ClassDeclaration" THEN visitClassDeclaration(path)
       ELSE IF node.kind = "InterfaceDeclaration" THEN visitInterfaceDeclaration(path)
       ELSE IF IsFunctionLike(node) THEN Unchanged(visitMember(node))
       ELSE IF node.kind = "VariableStatement" THEN visitVariableStatement(path)
       ELSE IF node.kind = "TypeAliasDeclaration" THEN visitTypeAliasDeclaration(path)
       ELSE IF node.kind = "ImportDeclaration" THEN visitImportDeclaration(path)
       ELSE IF node.kind = "ExpressionStatement"
       THEN Unchanged([node EXCEPT !.expression = visitExpression(node.expression)])
       ELSE IF node.kind = "ModuleDeclaration"
       THEN LET r == Combine(MapSeq(node.body, LAMBDA s : visitor(<<s>> \o path)))
            IN Result(<<[node EXCEPT !.body = r.nodes]>>,
                      r.forward, r.errors, r.warns)
       ELSE Unchanged(node)

(***************************************************************************)
(* The transformer of one source file: one action per branch of the        *)
(* visitor on a top-level statement, then the splice.                      *)
(***************************************************************************)
Traversing == pc = "visit" /\ pos <= Len(sourceFile)

\* A visit that splices the forward declares as soon as they are asked for.
Visit_SplicingAtOnce(handler) ==
    LET r == visitor(<<sourceFile[pos]>>)
        known == forwardDeclareAll(forwardDeclares, r.forward)
    IN /\ statements' = SubSeq(known, Len(forwardDeclares) + 1, Len(known))
                            \o statements \o r.nodes
       /\ forwardDeclares' = known
       /\ diagnostics' = error(diagnostics, r.errors)
       /\ warnings' = debugWarn(warnings, r.warns)
       /\ trace' = Append(trace, [handler |-> handler, nodes |-> r.nodes,
                                    forward |-> r.forward,
                                    errors |-> r.errors, warns |-> r.warns,
                                    at |-> Len(statements) + 1])
       /\ pos' = pos + 1
       /\ UNCHANGED <<sourceFile, fileName, host, pc, epos, externsVisited,
                      output, externsDiagnostics, externsTrace>>

\* One step of ts.visitEachChild(sourceFile, visitor, context): the visitor
\* on the next statement.  trace keeps, for every statement passed, the
\* branch taken, the nodes returned and the forward declares asked for.
Visit(handler) ==
    LET r == visitor(<<sourceFile[pos]>>)
    IN /\ statements' = statements \o r.nodes
       /\ forwardDeclares' = forwardDeclareAll(forwardDeclares, r.forward)
       /\ diagnostics' = error(diagnostics, r.errors)
       /\ warnings' = debugWarn(warnings, r.warns)
       /\ trace' = Append(trace, [handler |-> handler, nodes |-> r.nodes,
                                    forward |-> r.forward,
                                    errors |-> r.errors, warns |-> r.warns,
                                    at |-> Len(statements) + 1])
       /\ pos' = pos + 1
       /\ UNCHANGED <<sourceFile, fileName, host, pc, epos, externsVisited,
                      output, externsDiagnostics, externsTrace>>

VisitAmbient ==
    /\ Traversing
    /\ isAmbient(<<sourceFile[pos]>>)
    /\ Visit("ambient")

\* The branch of the visitor a statement that is not ambient takes.
Dispatches(kind) ==
    /\ Traversing
    /\ ~isAmbient(<<sourceFile[pos]>>)
    /\ sourceFile[pos].kind = kind

VisitClassDeclaration ==
    /\ Dispatches("ClassDeclaration")
    /\ Visit("ClassDeclaration")

VisitInterfaceDeclaration ==
    /\ Dispatches("InterfaceDeclaration")
    /\ Visit("InterfaceDeclaration")

VisitFunctionDeclaration ==
    /\ Dispatches("FunctionDeclaration")
    /\ Visit("FunctionDeclaration")

VisitVariableStatement ==
    /\ Dispatches("VariableStatement")
    /\ Visit("VariableStatement")

VisitTypeAliasDeclaration ==
    /\ Dispatches("TypeAliasDeclaration")
    /\ Visit("TypeAliasDeclaration")

VisitImportDeclaration ==
    /\ Dispatches("ImportDeclaration")
    /\ Visit("ImportDeclaration")

VisitExpressionStatement ==
    /\ Dispatches("ExpressionStatement")
    /\ Visit("ExpressionStatement")

VisitModuleDeclaration ==
    /\ Dispatches("ModuleDeclaration")
    /\ Visit("ModuleDeclaration")

VisitNotEmittedStatement ==
    /\ Dispatches("NotEmittedStatement")
    /\ Visit("NotEmittedStatement")

\* sourceFile = visitEachChild(...) is over: the forward declares go in.
InsertForwardDeclares ==
    /\ pc = "visit"
    /\ pos > Len(sourceFile)
    /\ statements' = insertForwardDeclares(statements, forwardDeclares)
    /\ pc' = "done"
    /\ UNCHANGED <<sourceFile, fileName, host, pos, trace, forwardDeclares,
                   diagnostics, warnings, epos, externsVisited,
                   output, externsDiagnostics, externsTrace>>

(***************************************************************************)
(* createExterns.  The output string is kept as the sequence of the pieces *)
(* emitted: a piece is a text, or the comment jsdoc.toString writes for a  *)
(* list of tags.  The pieces one writeExternsVariable call emits are kept  *)
(* as one text, as are those of one emitJSDocType call.                    *)
(***************************************************************************)
\* fileName ends in .d.ts
isDtsFileName(name) ==
    Len(name) >= 5 /\ SubSeq(name, Len(name) - 4, Len(name)) = ".d.ts"

CLOSURE_EXTERNS_BLACKLIST ==
    {"exports", "global", "module", "ErrorConstructor", "Symbol",
     "WorkerGlobalScope"}

Text(str) == [text |-> str, tags |-> <<>>]

\* jsdoc.toString(tags)
Doc(tags) == [text |-> "", tags |-> tags]

\* What a piece of createExterns leaves behind: output and diagnostics.
Externs(pieces, errors) == [output |-> pieces, diagnostics |-> errors]

emit(str) == Externs(<<Text(str)>>, <<>>)

Nothing == Externs(<<>>, <<>>)

externsError(messageText) ==
    Externs(<<>>, <<Diagnostic(messageText, "Error")>>)

errorUnimplementedKind(node, where) ==
    externsError(node.kind \o " not implemented in " \o where)

RECURSIVE InOrder(_)
InOrder(results) ==
    IF results = <<>> THEN Nothing
    ELSE LET rest == InOrder(Tail(results))
         IN Externs(Head(results).output \o rest.output,
                    Head(results).diagnostics \o rest.diagnostics)

\* node.getText() of a name.
getText(name) ==
    IF name.kind = "StringLiteral" THEN "\"" \o name.text \o "\"" ELSE name.text

(***************************************************************************)
(* Symbols of declarations.  The declarations of the file are listed in    *)
(* document order, each under the scope its symbol belongs to; the         *)
(* declarations of one symbol are those of one name in one scope.          *)
(***************************************************************************)
Declaration(at, scope, node) ==
    [at |-> at, scope |-> scope, name |-> getText(node.name), kind |-> node.kind]

IsNamedDeclaration(node) ==
    /\ node.kind \in {"ClassDeclaration", "InterfaceDeclaration",
                      "FunctionDeclaration", "EnumDeclaration",
                      "TypeAliasDeclaration", "ImportEqualsDeclaration",
                      "ModuleDeclaration"}
    /\ node.name.kind # "undefined"

RECURSIVE DeclarationsIn(_, _, _)
DeclarationsIn(stmts, scope, at) ==
    Flatten([i \in 1 .. Len(stmts) |->
        LET node == stmts[i]
            here == at \o <<i>>
        IN IF node.kind = "VariableStatement"
           THEN [d \in 1 .. Len(node.declarations) |->
                    Declaration(here, scope, node.declarations[d])]
           ELSE IF ~IsNamedDeclaration(node) THEN <<>>
           ELSE IF node.kind # "ModuleDeclaration"
           THEN <<Declaration(here, scope, node)>>
           ELSE IF node.name.text = "global" /\ node.name.kind = "Identifier"
           THEN DeclarationsIn(node.body, <<>>, here)
           ELSE <<Declaration(here, scope, node)>>
                \o DeclarationsIn(node.body,
                       IF node.name.kind = "StringLiteral"
                       THEN <<getText(node.name)>>
                       ELSE Append(scope, getText(node.name)),
                       here)])

\* sym.declarations of the symbol of the declaration at `at`.
SymbolDeclarations(scope, name) ==
    SelectSeq(DeclarationsIn(sourceFile, <<>>, <<>>),
        LAMBDA d : d.scope = scope /\ d.name = name)

isFirstDeclaration(decl, scope, at) ==
    IF decl.name.kind = "undefined" THEN TRUE
    ELSE LET declarations == SymbolDeclarations(scope, getText(decl.name))
         IN IF Len(declarations) < 2 THEN TRUE
            ELSE declarations[1].at = at

(***************************************************************************)
(* getFunctionTypeJSDoc of several declarations: parameter i is the union  *)
(* of the types the declarations give it, the return type the union of     *)
(* their return types, the names those of the first declaration.           *)
(***************************************************************************)
RECURSIVE Distinct(_)
Distinct(s) ==
    IF s = <<>> THEN <<>>
    ELSE LET front == Distinct(SubSeq(s, 1, Len(s) - 1))
             last == s[Len(s)]
         IN IF Some(front, LAMBDA x : x = last) THEN front
            ELSE Append(front, last)

UnionType(types) ==
    LET ts == Distinct(types)
    IN IF Len(ts) = 1 THEN ts[1] ELSE "(" \o Join(ts, "|") \o ")"

Arity(decls) ==
    LET lengths == {Len(decls[i].parameters) : i \in 1 .. Len(decls)}
    IN CHOOSE n \in lengths : \A m \in lengths : m <= n

getFunctionTypeJSDoc(decls) ==
    LET having(i) == SelectSeq(decls, LAMBDA d : Len(d.parameters) >= i)
    IN [i \in 1 .. Arity(decls) |->
            Tag("param",
                UnionType(MapSeq(having(i),
                    LAMBDA d : typeToClosure(d.parameters[i]))),
                having(i)[1].parameters[i].name.text)]
       \o <<Tag("return",
                IF host.untyped THEN "?"
                ELSE UnionType(MapSeq(decls, LAMBDA d : d.type)), "")>>

\* The comment emitFunctionType writes; it returns the parameter names.
emitFunctionType(decls, extraTags) ==
    Externs(<<Text("\n"), Doc(extraTags \o getFunctionTypeJSDoc(decls))>>, <<>>)

(***************************************************************************)
(* The writers.                                                            *)
(***************************************************************************)
writeExternsVariable(name, namespace, value) ==
    emit((IF namespace = <<>> THEN "var " ELSE "")
         \o Join(Append(namespace, name), ".")
         \o (IF value # "" THEN " = " \o value ELSE "")
         \o ";\n")

emitJSDocType(node) ==
    emit(" /** @type {" \o typeToClosure(node) \o "} */")

writeExternsVariableDecl(decl, namespace) ==
    IF decl.name.kind = "Identifier"
    THEN IF getIdentifierText(decl.name) \in CLOSURE_EXTERNS_BLACKLIST
         THEN Nothing
         ELSE InOrder(<<emitJSDocType(decl), emit("\n"),
                        writeExternsVariable(getIdentifierText(decl.name),
                                             namespace, "")>>)
    ELSE errorUnimplementedKind(decl.name, "externs for variable")

writeExternsFunction(name, params, namespace) ==
    IF namespace # <<>>
    THEN emit(Join(namespace, ".")
              \o (IF name.kind = "Identifier" THEN "." ELSE "")
              \o getText(name)
              \o " = function(" \o Join(params, ", ") \o ") {};\n")
    ELSE InOrder(<<
             IF name.kind # "Identifier"
             THEN externsError("Non-namespaced computed name in externs")
             ELSE Nothing,
             emit("function " \o getText(name)
                  \o "(" \o Join(params, ", ") \o ") {}\n")>>)

EnumDeclaration(name, modifiers, members) ==
    [kind |-> "EnumDeclaration", name |-> name, modifiers |-> modifiers,
     members |-> members]

\* The name an enum member is written under; "" when it has none.
enumMemberName(member) ==
    IF member.name.kind = "Identifier" THEN getIdentifierText(member.name)
    ELSE IF member.name.kind = "StringLiteral"
            /\ isValidClosurePropertyName(member.name.text)
    THEN member.name.text
    ELSE ""

writeExternsEnum(decl, namespace) ==
    LET name == getIdentifierText(decl.name)
    IN InOrder(<<emit("\n/** @const */\n"),
                 writeExternsVariable(name, namespace, "{}")>>
           \o MapSeq(decl.members,
                  LAMBDA member :
                      IF enumMemberName(member) = ""
                      THEN emit("\n/* TODO: " \o member.name.kind \o ": "
                                \o escapeForComment(getText(member.name))
                                \o " */\n")
                      ELSE InOrder(<<emit("/** @const {number} */\n"),
                                     writeExternsVariable(
                                         enumMemberName(member),
                                         Append(namespace, name), "")>>)))

writeExternsTypeAlias(decl, namespace) ==
    InOrder(<<emit("\n/** @typedef {" \o typeToClosure(decl) \o "} */\n"),
              writeExternsVariable(getIdentifierText(decl.name), namespace, "")>>)

(***************************************************************************)
(* writeExternsType.                                                       *)
(***************************************************************************)
IsMethod(member) == member.kind \in {"MethodSignature", "MethodDeclaration"}

methodSignature_NameOnly(method) == getText(method.name)

methodSignature(method) ==
    getText(method.name) \o "$$$"
        \o (IF hasModifierFlag(method, {"static"}) THEN "static" ELSE "instance")

\* The keys of the methods map, in insertion order.
MethodKeys(decl) ==
    Distinct(MapSeq(SelectSeq(decl.members, IsMethod), methodSignature))

methodVariants(decl, key) ==
    SelectSeq(decl.members, LAMBDA m : IsMethod(m) /\ methodSignature(m) = key)

\* The comment and the stub of the first declaration of a type.
writeExternsTypeStub(path, namespace) ==
    LET decl == Head(path)
        heritageTags == maybeAddHeritageClauses(<<>>, path)
        ctors == Ctors(decl)
        ownTags == IF decl.kind = "ClassDeclaration"
                   THEN <<Tag("constructor", "", ""), Tag("struct", "", "")>>
                   ELSE <<Tag("record", "", ""), Tag("struct", "", "")>>
        writeJsDoc == ~(decl.kind = "ClassDeclaration" /\ ctors # <<>>)
        paramNames == IF writeJsDoc THEN <<>>
                      ELSE getFunctionTypeJSDocParamNames(ctors[1])
    IN InOrder(<<
           IF writeJsDoc THEN Externs(<<Doc(heritageTags \o ownTags)>>, <<>>)
           ELSE emitFunctionType(ctors, ownTags),
           writeExternsFunction(decl.name, paramNames, namespace)>>)

\* The member loop: property lines and TODO comments, in member order.
writeExternsMember(member, typeName, namespace) ==
    IF /\ member.kind \in {"PropertySignature", "PropertyDeclaration"}
       /\ member.name.kind = "Identifier"
    THEN InOrder(<<emitJSDocType(member),
                   emit("\n" \o typeName
                        \o (IF hasModifierFlag(member, {"static"})
                            THEN "." ELSE ".prototype.")
                        \o getText(member.name) \o ";\n")>>)
    ELSE IF IsMethod(member) \/ member.kind = "Constructor" THEN Nothing
    ELSE emit("\n/* TODO: " \o member.kind \o ": "
              \o Join(IF member.name.kind = "undefined" THEN namespace
                      ELSE Append(namespace, getText(member.name)), ".")
              \o " */\n")

\* The stub of one group of method variants.
writeExternsMethod(decl, key, namespace) ==
    LET variants == methodVariants(decl, key)
        first == variants[1]
        methodNamespace ==
            Append(namespace, getText(decl.name))
                \o (IF hasModifierFlag(first, {"static"}) THEN <<>>
                    ELSE <<"prototype">>)
    IN InOrder(<<emitFunctionType(variants, <<>>),
                 writeExternsFunction(first.name,
                     getFunctionTypeJSDocParamNames(first), methodNamespace)>>)

writeExternsType(path, namespace, scope, at) ==
    LET decl == Head(path)
        typeName == Join(Append(namespace, getText(decl.name)), ".")
    IN IF decl.name.kind = "undefined"
       THEN externsError("anonymous type in externs")
       ELSE IF typeName \in CLOSURE_EXTERNS_BLACKLIST THEN Nothing
       ELSE InOrder(
               <<IF isFirstDeclaration(decl, scope, at)
                 THEN writeExternsTypeStub(path, namespace) ELSE Nothing>>
               \o MapSeq(decl.members,
                      LAMBDA member :
                          writeExternsMember(member, typeName, namespace))
               \o MapSeq(MethodKeys(decl),
                      LAMBDA key : writeExternsMethod(decl, key, namespace)))

(***************************************************************************)
(* The externs visitor.                                                    *)
(***************************************************************************)
RECURSIVE ReplaceFirst(_, _, _)
ReplaceFirst(str, pat, by) ==
    IF Len(str) < Len(pat) THEN str
    ELSE IF SubSeq(str, 1, Len(pat)) = pat
         THEN by \o SubSeq(str, Len(pat) + 1, Len(str))
         ELSE CharAt(str, 1) \o ReplaceFirst(SubSeq(str, 2, Len(str)), pat, by)

\* str.replace(/[^A-Za-z]/g, '_')
RECURSIVE ReplaceNonAlpha(_)
ReplaceNonAlpha(str) ==
    IF str = "" THEN ""
    ELSE (IF CharAt(str, 1) \in Alpha THEN CharAt(str, 1) ELSE "_")
         \o ReplaceNonAlpha(SubSeq(str, 2, Len(str)))

\* importName.replace(/_/, '__').replace(/[^A-Za-z]/g, '_')
mangledImportName(importName) ==
    ReplaceNonAlpha(ReplaceFirst(importName, "_", "__"))

\* path.basename
RECURSIVE basename(_)
basename(name) ==
    IF \E i \in 1 .. Len(name) : CharAt(name, i) = "/"
    THEN basename(SubSeq(name, 2, Len(name)))
    ELSE name

ImportEqualsDeclaration(name, moduleReference) ==
    [kind |-> "ImportEqualsDeclaration", name |-> name, modifiers |-> {},
     moduleReference |-> moduleReference]

\* getEntityNameText
getEntityNameText(name) == name.text

writeExternsImportEquals(importEquals, namespace) ==
    LET localName == getIdentifierText(importEquals.name)
    IN IF localName = "ng"
       THEN emit("\n/* Skipping problematic import ng = ...; */\n")
       ELSE IF importEquals.moduleReference.kind = "ExternalModuleReference"
       THEN emit("\n/* TODO: import " \o localName \o " = require(...) */\n")
       ELSE InOrder(<<
                IF namespace = <<>> THEN emit("/** @const */\n") ELSE Nothing,
                writeExternsVariable(localName, namespace,
                    getEntityNameText(importEquals.moduleReference))>>)

\* The overloads of the function declared at `at`: sym.declarations, the
\* function declarations only.
Overloads(fnDecl, scope) ==
    SelectSeq(SymbolDeclarations(scope, getText(fnDecl.name)),
        LAMBDA d : d.kind = "FunctionDeclaration")

RECURSIVE NodeAt(_, _)
NodeAt(stmts, at) ==
    IF Len(at) = 1 THEN stmts[at[1]]
    ELSE NodeAt(stmts[at[1]].body, Tail(at))

\* A stub for every overload, each with its own signature.
writeExternsOverloads_EveryOverload(fnDecl, namespace, scope, at) ==
    IF fnDecl.name.kind = "undefined"
    THEN externsError("anonymous function in externs")
    ELSE InOrder(<<emitFunctionType(<<fnDecl>>, <<>>),
                   writeExternsFunction(fnDecl.name,
                       getFunctionTypeJSDocParamNames(fnDecl), namespace)>>)

writeExternsOverloads(fnDecl, namespace, scope, at) ==
    LET decls == Overloads(fnDecl, scope)
    IN IF fnDecl.name.kind = "undefined"
       THEN externsError("anonymous function in externs")
       ELSE IF decls[1].at # at THEN Nothing
       ELSE InOrder(<<
                emitFunctionType(
                    MapSeq(decls, LAMBDA d : NodeAt(sourceFile, d.at)), <<>>),
                writeExternsFunction(fnDecl.name,
                    getFunctionTypeJSDocParamNames(
                        NodeAt(sourceFile, decls[1].at)),
                    namespace)>>)

\* visitor(node, namespace).  path is <<node, parent, ...>>, scope the
\* scope the symbols declared here belong to, at the place of the node.
RECURSIVE externsVisitor(_, _, _, _)
externsVisitor(path, namespace, scope, at) ==
    LET node == Head(path)
        body(ns, sc) ==
            InOrder([i \in 1 .. Len(node.body) |->
                externsVisitor(<<node.body[i]>> \o path, ns, sc, at \o <<i>>)])
    IN IF node.kind = "ModuleDeclaration"
       THEN IF node.name.kind = "Identifier"
            THEN LET name == getIdentifierText(node.name)
                 IN IF name = "global" THEN body(<<>>, <<>>)
                    ELSE InOrder(<<
                        IF isFirstDeclaration(node, scope, at)
                        THEN InOrder(<<emit("/** @const */\n"),
                                 writeExternsVariable(name, namespace, "{}")>>)
                        ELSE Nothing,
                        body(Append(namespace, name), Append(scope, name))>>)
            ELSE IF node.name.kind = "StringLiteral"
            THEN LET importName == mangledImportName(node.name.text)
                 IN InOrder(<<
                        emit("/** @const */\n"),
                        writeExternsVariable("tsickle_declare_module", <<>>, "{}"),
                        emit("// Derived from: declare module \""
                             \o node.name.text \o "\"\n"),
                        IF isFirstDeclaration(node, scope, at)
                        THEN InOrder(<<emit("/** @const */\n"),
                                 writeExternsVariable(importName,
                                     <<"tsickle_declare_module">>, "{}")>>)
                        ELSE Nothing,
                        body(<<"tsickle_declare_module", importName>>,
                             <<getText(node.name)>>)>>)
            ELSE errorUnimplementedKind(node.name,
                     "externs generation of namespace")
       ELSE IF node.kind = "ImportEqualsDeclaration"
       THEN writeExternsImportEquals(node, namespace)
       ELSE IF node.kind \in {"ClassDeclaration", "InterfaceDeclaration"}
       THEN writeExternsType(path, namespace, scope, at)
       ELSE IF node.kind = "FunctionDeclaration"
       THEN writeExternsOverloads(node, namespace, scope, at)
       ELSE IF node.kind = "VariableStatement"
       THEN InOrder(MapSeq(node.declarations,
                LAMBDA decl : writeExternsVariableDecl(decl, namespace)))
       ELSE IF node.kind = "EnumDeclaration"
       THEN writeExternsEnum(node, namespace)
       ELSE IF node.kind = "TypeAliasDeclaration"
       THEN writeExternsTypeAlias(node, namespace)
       ELSE emit("\n// TODO(tsickle): " \o node.kind \o " in "
                 \o (IF namespace # <<>> THEN Join(namespace, ".")
                     ELSE basename(fileName))
                 \o "\n")

\* One turn of the loop of createExterns: a statement that is neither in a
\* declaration file nor declared is passed over, any other is visited.
ExternsStatement ==
    /\ epos <= Len(sourceFile)
    /\ LET skipped == /\ ~isDtsFileName(fileName)
                      /\ ~hasModifierFlag(sourceFile[epos], Ambient)
           r == IF skipped THEN Nothing
                ELSE externsVisitor(<<sourceFile[epos]>>, <<>>, <<>>, <<epos>>)
       IN /\ externsVisited' = IF skipped THEN externsVisited
                               ELSE Append(externsVisited, epos)
          /\ output' = output \o r.output
          /\ externsDiagnostics' = externsDiagnostics \o r.diagnostics
          /\ externsTrace' =
                 IF skipped THEN externsTrace
                 ELSE Append(externsTrace,
                          [at |-> epos, output |-> r.output,
                           diagnostics |-> r.diagnostics])
    /\ epos' = epos + 1
    /\ UNCHANGED <<sourceFile, fileName, host, pos, statements, trace,
                   forwardDeclares, diagnostics, warnings, pc>>

(***************************************************************************)
(* Inputs: class and interface declarations.                               *)
(***************************************************************************)
ParamA == Parameter(Identifier("a"), {}, "number", <<>>)
ParamX == Parameter(Identifier("x"), {"private"}, "number",
              <<Tag("deprecated", "", "")>>)
ParamY == Parameter(Identifier("y"), {"public", "readonly"}, "string", <<>>)
AllParams == <<ParamA, ParamX, ParamY>>

\* Parameter lists: up to MaxParams parameters, in the order of AllParams.
ParameterLists ==
    {MapSeq(ix, LAMBDA i : AllParams[i]) :
        ix \in {s \in SeqsUpTo(1 .. Len(AllParams), MaxParams) :
                   /\ Len(s) >= 1
                   /\ \A i \in 1 .. Len(s) - 1 : s[i] < s[i + 1]}}

Constructor(parameters, body) ==
    Member("Constructor", NoName, {}, parameters, body, "void", "constructor")

ClassMembers ==
    {Constructor(ps, TRUE) : ps \in ParameterLists}
    \cup
    {Constructor(<<ParamA>>, FALSE),
     Member("PropertyDeclaration", Identifier("s"), {"static"}, <<>>, FALSE,
            "number", "static s: number;"),
     Member("PropertyDeclaration", Identifier("p"), {}, <<>>, FALSE,
            "string", "p: string;"),
     Member("PropertyDeclaration", StringLiteral("complex name"), {}, <<>>, FALSE,
            "string", "'complex name': string;"),
     Member("MethodDeclaration", Identifier("m"), {}, <<>>, TRUE,
            "void", "m() {}"),
     Member("MethodDeclaration", Identifier("am"), {"abstract"}, <<ParamA>>, FALSE,
            "void", "abstract am(a: number): void;"),
     Member("MethodDeclaration", ComputedPropertyName("[k]"), {"abstract"}, <<>>,
            FALSE, "void", "abstract [k](): void;"),
     Member("IndexSignature", NoName, {}, <<>>, FALSE,
            "number", "[key: string /* any */]: number;")}

InterfaceMembers ==
    {Member("PropertySignature", Identifier("p"), {}, <<>>, FALSE,
            "string", "p: string;"),
     Optional(Member("PropertySignature", Identifier("o"), {}, <<>>, FALSE,
            "?", "o?: any;")),
     Member("MethodSignature", Identifier("m"), {}, <<ParamA>>, FALSE,
            "void", "m(a: number): void;"),
     Member("IndexSignature", NoName, {}, <<>>, FALSE,
            "number", "[key: string]: number;"),
     Member("CallSignature", NoName, {}, <<>>, FALSE, "void", "(): void;")}

ClassDeclarations ==
    {ClassDeclaration(name, modifiers, <<>>, members) :
        name \in {Identifier("C"), NoName},
        modifiers \in {{}, {"declare"}, {"export", "abstract"}},
        members \in SeqsUpTo(ClassMembers, MaxMembers)}

InterfaceSymbols ==
    {NoSymbol, Symbol("I", {"Interface"}, <<>>),
     Symbol("I", {"Interface", "Value"}, <<>>)}

InterfaceDeclarations ==
    {InterfaceDeclaration(Identifier("I"), modifiers, <<>>, members, symbol) :
        modifiers \in {{}, {"export"}, {"declare"}},
        members \in SeqsUpTo(InterfaceMembers, MaxMembers),
        symbol \in InterfaceSymbols}

\* console.log(x)
LogStatement ==
    InputExpressionStatement(
        CallExpression(IdentifierExpression("x", <<"string">>), <<"void">>))

\* class D { constructor(public y: string) {} }
ClassD ==
    ClassDeclaration(Identifier("D"), {}, <<>>, <<Constructor(<<ParamY>>, TRUE)>>)

Hosts ==
    [untyped : BOOLEAN, logWarning : BOOLEAN, module : {"CommonJS", "ES2015"},
     convertIndexImportShorthand : BOOLEAN]

InitTransformer ==
    /\ pos = 1
    /\ statements = <<>>
    /\ trace = <<>>
    /\ forwardDeclares = <<>>
    /\ diagnostics = <<>>
    /\ warnings = <<>>
    /\ pc = "visit"
    /\ epos = 1
    /\ externsVisited = <<>>
    /\ output = <<>>
    /\ externsDiagnostics = <<>>
    /\ externsTrace = <<>>

(***************************************************************************)
(* SpecTypes: files with a class or an interface declaration.              *)
(***************************************************************************)
InitTypes ==
    /\ \E decl \in ClassDeclarations \cup InterfaceDeclarations :
           sourceFile \in {<<decl>>, <<decl, LogStatement>>, <<ClassD, decl>>}
    /\ fileName = "a.ts"
    /\ host \in {h \in Hosts : /\ h.module = "CommonJS"
                               /\ ~h.convertIndexImportShorthand
                               /\ h.untyped = ~h.logWarning}
    /\ InitTransformer

NextTypes ==
    \/ VisitAmbient
    \/ VisitClassDeclaration
    \/ VisitInterfaceDeclaration
    \/ VisitExpressionStatement
    \/ InsertForwardDeclares

SpecTypes == InitTypes /\ [][NextTypes]_vars

(***************************************************************************)
(* SpecVars: files with a variable statement or an expression statement.   *)
(***************************************************************************)
IdentX == IdentifierExpression("x", <<"string", "null">>)
IdentY == IdentifierExpression("y", <<"number", "undefined", "null">>)

AssertedTypes == {<<"string">>, <<"Foo", "undefined">>}

\* The expressions with at most d assertions, non-null expressions and
\* calls around an identifier.
RECURSIVE Expressions(_)
Expressions(d) ==
    IF d = 0 THEN {IdentX, IdentY}
    ELSE LET smaller == Expressions(d - 1)
         IN smaller
            \cup {Assertion(kind, type, e) :
                     kind \in {"TypeAssertionExpression", "AsExpression"},
                     type \in AssertedTypes, e \in smaller}
            \cup {NonNullExpression(e) : e \in smaller}
            \cup {CallExpression(e, <<"Foo", "null">>) : e \in smaller}

Initializers == {<<>>, <<NonNullExpression(IdentX)>>}

VariableDeclarations ==
    {VariableDeclaration(name, initializer, "Foo", blacklisted, "") :
        name \in {Identifier("v"),
                  [kind |-> "ObjectBindingPattern", text |-> "{a, b}"]},
        initializer \in Initializers,
        blacklisted \in BOOLEAN}

LineComment == TextComment("SingleLineCommentTrivia", " a note")
DocComment == TextComment("MultiLineCommentTrivia", "* @deprecated ")
DocTags == <<Tag("deprecated", "", "")>>

\* The comments before a variable statement, with the tags getJSDoc reads.
LeadingComments ==
    {[comments |-> <<>>, jsdoc |-> <<>>],
     [comments |-> <<<<LineComment>>>>, jsdoc |-> <<>>],
     [comments |-> <<<<DocComment>>>>, jsdoc |-> DocTags],
     [comments |-> <<<<LineComment, DocComment>>>>, jsdoc |-> DocTags]}

VariableKeywords ==
    {[modifiers |-> {}, flags |-> "let"],
     [modifiers |-> {"export"}, flags |-> "const"],
     [modifiers |-> {"declare"}, flags |-> "var"]}

VariableStatements ==
    {VariableStatement(kw.modifiers, kw.flags, declarations, leading.comments,
                       leading.jsdoc) :
        kw \in VariableKeywords,
        declarations \in SeqsUpTo(VariableDeclarations, MaxDecls) \ {<<>>},
        leading \in LeadingComments}

ExpressionStatements ==
    {InputExpressionStatement(e) : e \in Expressions(MaxDepth)}

InitVars ==
    /\ \E stmt \in VariableStatements \cup ExpressionStatements :
           sourceFile \in {<<stmt>>, <<LogStatement, stmt>>}
    /\ fileName = "a.ts"
    /\ host \in {h \in Hosts : /\ h.module = "CommonJS"
                               /\ ~h.convertIndexImportShorthand
                               /\ h.logWarning}
    /\ InitTransformer

NextVars ==
    \/ VisitAmbient
    \/ VisitVariableStatement
    \/ VisitExpressionStatement
    \/ InsertForwardDeclares

SpecVars == InitVars /\ [][NextVars]_vars

(***************************************************************************)
(* SpecModule: files of imports, type aliases and typed variables, with    *)
(* or without a fileoverview comment in front.                             *)
(***************************************************************************)
ModuleSymbol(name) == Symbol(name, {"ValueModule"}, <<>>)

\* import './m';  import {} from './m';  import d from './m';  with a module
\* or a script behind the specifier, and a directory import.
ImportDeclarations ==
    {ImportDeclaration(clause, "./imported", symbol, FALSE) :
        clause \in {<<>>, <<ImportClause("")>>, <<ImportClause("d")>>},
        symbol \in {ModuleSymbol("imported"), NoSymbol}}
    \cup {ImportDeclaration(clause, "./dir", ModuleSymbol("dir"), TRUE) :
             clause \in {<<>>, <<ImportClause("")>>, <<ImportClause("d")>>}}

TypeAliasDeclarations ==
    {TypeAliasDeclaration(Identifier("T"), {"export"},
         Symbol("T", {"TypeAlias"}, <<>>), "string", ""),
     TypeAliasDeclaration(Identifier("T"), {"export"},
         Symbol("T", {"TypeAlias"}, <<>>), "tsickle_forward_declare_1.Foo",
         "./imported"),
     TypeAliasDeclaration(Identifier("T"), {"export"},
         Symbol("T", {"TypeAlias", "Value"}, <<>>), "string", ""),
     TypeAliasDeclaration(Identifier("T"), {},
         Symbol("T", {"TypeAlias"}, <<>>), "string", "./imported"),
     TypeAliasDeclaration(Identifier("T"), {"export", "declare"},
         Symbol("T", {"TypeAlias"}, <<>>), "string", "")}

\* let v: Foo;  with Foo of another module.
TypedVariables ==
    {VariableStatement({}, "let",
         <<VariableDeclaration(Identifier("v"), <<>>, "Foo", FALSE, typeModule)>>,
         <<>>, <<>>) :
        typeModule \in {"./imported", "./other"}}

FileOverview ==
    [kind |-> "NotEmittedStatement", modifiers |-> {},
     leadingComments |-> <<TextComment("MultiLineCommentTrivia",
                                        "* @fileoverview added by tsickle")>>,
     trailingComments |-> <<>>]

ModuleStatements ==
    ImportDeclarations \cup TypeAliasDeclarations \cup TypedVariables
        \cup {LogStatement}

InitModule ==
    /\ \E stmts \in SeqsUpTo(ModuleStatements, MaxStmts) \ {<<>>} :
           sourceFile \in {stmts, <<FileOverview>> \o stmts}
    /\ fileName = "a.ts"
    /\ host \in {h \in Hosts : ~h.untyped /\ h.logWarning}
    /\ InitTransformer

NextModule ==
    \/ VisitAmbient
    \/ VisitImportDeclaration
    \/ VisitTypeAliasDeclaration
    \/ VisitVariableStatement
    \/ VisitExpressionStatement
    \/ VisitNotEmittedStatement
    \/ InsertForwardDeclares

SpecModule == InitModule /\ [][NextModule]_vars

(***************************************************************************)
(* Spec: the annotation transformer and the loop of createExterns over     *)
(* the same non-declaration file, statements of every kind, ambient or     *)
(* not, and namespaces with statements inside.                             *)
(***************************************************************************)
Declared(node) == [node EXCEPT !.modifiers = @ \cup {"declare"}]

InterfaceI ==
    InterfaceDeclaration(Identifier("I"), {}, <<>>,
        <<Member("PropertySignature", Identifier("p"), {}, <<>>, FALSE, "string",
                 "p: string;")>>,
        Symbol("I", {"Interface"}, <<>>))

\* function f(a: number): void {}
FunctionF ==
    Member("FunctionDeclaration", Identifier("f"), {}, <<ParamA>>, TRUE, "void",
           "function f(a: number): void {}")

\* let v: Foo = x!;
VariableV ==
    VariableStatement({}, "let",
        <<VariableDeclaration(Identifier("v"), <<NonNullExpression(IdentX)>>,
                              "Foo", FALSE, "./imported")>>,
        <<>>, <<>>)

TypeAliasT ==
    TypeAliasDeclaration(Identifier("T"), {"export"},
        Symbol("T", {"TypeAlias"}, <<>>), "string", "")

ImportD ==
    ImportDeclaration(<<ImportClause("d")>>, "./imported",
                      ModuleSymbol("imported"), FALSE)

\* namespace N { declare let v; console.log(x) }, declare namespace N { let v }
Namespaces ==
    {ModuleDeclaration(Identifier("N"), {}, <<Declared(VariableV), LogStatement>>),
     ModuleDeclaration(Identifier("N"), {}, <<VariableV>>),
     ModuleDeclaration(Identifier("N"), {"declare"}, <<VariableV, InterfaceI>>)}

PlainStatements ==
    {ClassD, InterfaceI, FunctionF, VariableV, TypeAliasT}

AllStatements ==
    PlainStatements
        \cup {Declared(stmt) : stmt \in PlainStatements}
        \cup {ImportD, LogStatement, FileOverview}
        \cup Namespaces

Init ==
    /\ sourceFile \in SeqsUpTo(AllStatements, MaxStmts) \ {<<>>}
    /\ fileName = "a.ts"
    /\ host \in {h \in Hosts : /\ h.module = "CommonJS"
                               /\ ~h.convertIndexImportShorthand
                               /\ h.logWarning}
    /\ InitTransformer

Next ==
    \/ VisitAmbient
    \/ VisitClassDeclaration
    \/ VisitInterfaceDeclaration
    \/ VisitFunctionDeclaration
    \/ VisitVariableStatement
    \/ VisitTypeAliasDeclaration
    \/ VisitImportDeclaration
    \/ VisitExpressionStatement
    \/ VisitModuleDeclaration
    \/ VisitNotEmittedStatement
    \/ InsertForwardDeclares
    \/ ExternsStatement

Spec == Init /\ [][Next]_vars

(***************************************************************************)
(* Properties.  Output(i) is what the visitor returned for statement i;    *)
(* Visited is the set of statements the traversal has passed.              *)
(***************************************************************************)
Visited == 1 .. Len(trace)
Output(i) == trace[i].nodes

\* Where the forward declares stand in the output, once spliced.
SpliceAt ==
    IF Len(statements) > 0 /\ statements[1].kind = "NotEmittedStatement"
    THEN 1 ELSE 0

\* The index in `statements` of the first node returned for statement i.
OffsetOf(i) ==
    IF pc = "done" /\ trace[i].at > SpliceAt
    THEN trace[i].at + Len(forwardDeclares)
    ELSE trace[i].at

\* The nodes returned for statement i stand in the output, side by side.
Emitted(i) ==
    \A k \in 1 .. Len(Output(i)) :
        /\ OffsetOf(i) + k - 1 <= Len(statements)
        /\ statements[OffsetOf(i) + k - 1].kind = Output(i)[k].kind
        /\ statements[OffsetOf(i) + k - 1] = Output(i)[k]

IsTopLevelAmbient(node) == "declare" \in node.modifiers

IfStatements(nodes) == SelectSeq(nodes, LAMBDA n : n.kind = "IfStatement")

\* ifStmt holds the statement `<className>.prototype.<name>;`
DeclaresOnPrototype(ifStmt, className, name) ==
    \E k \in 1 .. Len(ifStmt.thenStatement) :
        LET child == ifStmt.thenStatement[k]
        IN /\ child.kind = "ExpressionStatement"
           /\ child.expression.kind = "PropertyAccessExpression"
           /\ child.expression.name.text = name
           /\ child.expression.expression.kind = "PropertyAccessExpression"
           /\ child.expression.expression.name.text = "prototype"
           /\ child.expression.expression.expression.kind = "Identifier"
           /\ child.expression.expression.expression.text = className

IsParameterProperty(p) ==
    p.modifiers \cap {"private", "protected", "public", "readonly"} # {}

ConstructorsOf(decl) == SelectSeq(decl.members, LAMBDA m : m.kind = "Constructor")

\* The parameter properties of all constructors of a class.
ParameterPropertiesOf(classDecl) ==
    Flatten(MapSeq(ConstructorsOf(classDecl),
        LAMBDA c : SelectSeq(c.parameters, IsParameterProperty)))

\* The parameter properties of the first constructor of a class.
FirstConstructorProperties(classDecl) ==
    IF ConstructorsOf(classDecl) = <<>> THEN <<>>
    ELSE SelectSeq(ConstructorsOf(classDecl)[1].parameters, IsParameterProperty)

\* The class is followed by one member-type-declaration listing props.
HasMemberTypeDeclaration(i, props) ==
    /\ Len(Output(i)) = 2
    /\ Output(i)[1].kind = "ClassDeclaration"
    /\ Output(i)[1].name = sourceFile[i].name
    /\ Output(i)[2].kind = "IfStatement"
    /\ \A k \in 1 .. Len(props) :
           DeclaresOnPrototype(Output(i)[2], sourceFile[i].name.text,
                               props[k].name.text)
    /\ Emitted(i)

\* C1, as claimed: every class declaration whose constructor has parameter
\* properties p1..pn is followed, as its next sibling, by exactly one
\* member-type-declaration, which holds C.prototype.pi for every i.
C1_EveryClass ==
    \A i \in Visited :
        (/\ sourceFile[i].kind = "ClassDeclaration"
         /\ ParameterPropertiesOf(sourceFile[i]) # <<>>)
        => HasMemberTypeDeclaration(i, ParameterPropertiesOf(sourceFile[i]))

\* C1, amended: every class declaration that is not ambient, has a name and
\* whose first constructor has parameter properties p1..pn is followed, as
\* its next sibling, by exactly one member-type-declaration, which holds
\* C.prototype.pi for every i.
C1_NamedClassFirstConstructor ==
    \A i \in Visited :
        (/\ sourceFile[i].kind = "ClassDeclaration"
         /\ ~IsTopLevelAmbient(sourceFile[i])
         /\ sourceFile[i].name.kind = "Identifier"
         /\ FirstConstructorProperties(sourceFile[i]) # <<>>)
        => HasMemberTypeDeclaration(i, FirstConstructorProperties(sourceFile[i]))

\* A class C with two parameter properties has been visited and is followed
\* by its member-type-declaration.
C1_Witness ==
    \E i \in Visited :
        /\ sourceFile[i].kind = "ClassDeclaration"
        /\ sourceFile[i].name.text = "C"
        /\ ~IsTopLevelAmbient(sourceFile[i])
        /\ Len(FirstConstructorProperties(sourceFile[i])) = 2
        /\ i < Len(sourceFile)
        /\ pc = "done"
        /\ Len(Output(i)) = 2
        /\ Output(i)[2].kind = "IfStatement"

\* C3: an interface whose symbol is not a value becomes a function
\* declaration of its name without parameters, exported if the interface
\* is, with a record tag in its leading comment; an interface whose symbol
\* is a value leaves a warning comment only: no function declaration, no
\* member-type-declaration, no typedef.
HasRecordTag(decl) ==
    \E c \in 1 .. Len(decl.leadingComments) :
        \E t \in 1 .. Len(decl.leadingComments[c].tags) :
            decl.leadingComments[c].tags[t].tagName = "record"

C3_InterfaceBecomesRecordFunction ==
    \A i \in Visited :
        (/\ sourceFile[i].kind = "InterfaceDeclaration"
         /\ ~IsTopLevelAmbient(sourceFile[i])
         /\ sourceFile[i].symbol.kind = "Symbol")
        => IF "Value" \notin sourceFile[i].symbol.flags
           THEN /\ Len(Output(i)) >= 1
                /\ Output(i)[1].kind = "FunctionDeclaration"
                /\ Output(i)[1].name = sourceFile[i].name.text
                /\ Output(i)[1].parameters = <<>>
                /\ Output(i)[1].modifiers = sourceFile[i].modifiers \cap {"export"}
                /\ HasRecordTag(Output(i)[1])
                /\ \A k \in 1 .. Len(Output(i)) :
                       Output(i)[k].kind # "InterfaceDeclaration"
                /\ Emitted(i)
           ELSE /\ Len(Output(i)) = 1
                /\ Output(i)[1].kind = "NotEmittedStatement"
                /\ Len(Output(i)[1].trailingComments) = 1
                /\ Output(i)[1].trailingComments[1].kind = "SingleLineCommentTrivia"
                /\ Output(i)[1].trailingComments[1].tags = <<>>
                /\ Output(i)[1].leadingComments = <<>>
                /\ Emitted(i)

\* An exported interface with members whose symbol is a type only has been
\* replaced by a function declaration and a member-type-declaration.
C3_Witness ==
    \E i \in Visited :
        /\ sourceFile[i].kind = "InterfaceDeclaration"
        /\ sourceFile[i].modifiers = {"export"}
        /\ sourceFile[i].symbol.flags = {"Interface"}
        /\ Len(sourceFile[i].members) = 2
        /\ Len(Output(i)) = 2
        /\ Output(i)[1].kind = "FunctionDeclaration"
        /\ pc = "done"

\* The members createMemberTypeDeclaration is said to collect: properties,
\* parameter properties, abstract or interface methods, unrecognized ones.
IsMethodMember(m) ==
    m.kind \in {"MethodDeclaration", "MethodSignature", "GetAccessor", "SetAccessor"}

CollectedMembers(typeDecl) ==
    SelectSeq(typeDecl.members,
        LAMBDA m :
            /\ m.kind # "Constructor"
            /\ IsMethodMember(m) =>
                   \/ "abstract" \in m.modifiers
                   \/ typeDecl.kind = "InterfaceDeclaration")
    \o FirstConstructorProperties(typeDecl)

\* C10, as claimed: no member-type-declaration is emitted if and only if
\* the type has no name or nothing is collected, unrecognized members
\* counting as collected.
C10_EmittedUnlessNothingCollected ==
    \A i \in Visited :
        (/\ sourceFile[i].kind \in {"ClassDeclaration", "InterfaceDeclaration"}
         /\ ~IsTopLevelAmbient(sourceFile[i])
         /\ sourceFile[i].kind = "InterfaceDeclaration" =>
                /\ sourceFile[i].symbol.kind = "Symbol"
                /\ "Value" \notin sourceFile[i].symbol.flags)
        => (IfStatements(Output(i)) = <<>>
            <=> \/ sourceFile[i].name.kind = "undefined"
                \/ CollectedMembers(sourceFile[i]) = <<>>)

(***************************************************************************)
(* Variable statements and casts, under SpecVars.                          *)
(***************************************************************************)
VisitedAs(handler) == {i \in Visited : trace[i].handler = handler}

VariableStatementsOf(nodes) ==
    SelectSeq(nodes, LAMBDA n : n.kind = "VariableStatement")

\* The tags of the comments synthesized on an output statement.
TagsOn(stmt) ==
    Flatten(MapSeq(stmt.syntheticLeadingComments,
                   LAMBDA comments : Flatten(MapSeq(comments, LAMBDA c : c.tags))))

TagNamesOn(stmt) == {TagsOn(stmt)[k].tagName : k \in 1 .. Len(TagsOn(stmt))}

\* The comments of the input statement that are not structured comments.
NonStructuredComments(varStmt) ==
    IF varStmt.syntheticLeadingComments = <<>> THEN <<>>
    ELSE SelectSeq(varStmt.syntheticLeadingComments[1],
                   LAMBDA c : c.text = "" \/ SubSeq(c.text, 1, 1) # "*")

\* C6: a variable statement with n declarators becomes n variable
\* statements, in declarator order, of one declarator each, with the
\* modifiers and the const/let/var flags of the original; the tags of the
\* structured comment before the original are on the first of them only;
\* the comments that are not structured are on a not-emitted statement
\* that stands before the n statements.
C6_OneStatementPerDeclarator ==
    \A i \in VisitedAs("VariableStatement") :
        LET varStmt == sourceFile[i]
            n == Len(varStmt.declarations)
            out == Output(i)
            made == VariableStatementsOf(out)
            others == Len(out) - n
        IN /\ Len(made) = n
           /\ others \in {0, 1}
           /\ \A k \in 1 .. n :
                  /\ out[others + k].kind = "VariableStatement"
                  /\ Len(out[others + k].declarations) = 1
                  /\ out[others + k].declarations[1].name = varStmt.declarations[k].name
                  /\ out[others + k].modifiers = varStmt.modifiers
                  /\ out[others + k].flags = varStmt.flags
                  /\ \A t \in 1 .. Len(varStmt.jsdoc) :
                         (varStmt.jsdoc[t].tagName \in TagNamesOn(out[others + k]))
                             <=> (k = 1)
           /\ Len(NonStructuredComments(varStmt)) > 0 =>
                  /\ others = 1
                  /\ out[1].kind = "NotEmittedStatement"
                  /\ out[1].leadingComments = NonStructuredComments(varStmt)

\* A statement of two declarators with both kinds of comment before it has
\* been split.
C6_Witness ==
    \E i \in VisitedAs("VariableStatement") :
        /\ Len(sourceFile[i].declarations) = 2
        /\ Len(sourceFile[i].jsdoc) > 0
        /\ Len(NonStructuredComments(sourceFile[i])) > 0
        /\ Len(Output(i)) = 3

\* C7: the statement made for a declarator has a type tag exactly when the
\* binding is a plain identifier and the declarator is not both
\* initialized and of a blacklisted type; a blacklisted declarator without
\* initializer has the type tag `?`.
C7_TypeTagRule ==
    \A i \in VisitedAs("VariableStatement") :
        LET varStmt == sourceFile[i]
            made == VariableStatementsOf(Output(i))
        IN \A k \in 1 .. Len(varStmt.declarations) :
               LET decl == varStmt.declarations[k]
                   typeTags == SelectSeq(TagsOn(made[k]),
                                         LAMBDA t : t.tagName = "type")
               IN /\ Len(typeTags) \in {0, 1}
                  /\ Len(typeTags) = 1 <=>
                         /\ decl.name.kind = "Identifier"
                         /\ ~(decl.initializer # <<>> /\ decl.blacklisted)
                  /\ (/\ decl.name.kind = "Identifier"
                      /\ decl.initializer = <<>>
                      /\ decl.blacklisted) => typeTags = <<Tag("type", "?", "")>>

\* One statement held a blacklisted declarator with an initializer and a
\* blacklisted declarator without, both plain identifiers.
C7_Witness ==
    \E i \in VisitedAs("VariableStatement") :
        LET decls == sourceFile[i].declarations
        IN /\ Len(decls) = 2
           /\ \A k \in 1 .. 2 : decls[k].name.kind = "Identifier" /\ decls[k].blacklisted
           /\ decls[1].initializer # <<>>
           /\ decls[2].initializer = <<>>
           /\ TagsOn(VariableStatementsOf(Output(i))[1]) = <<>>

IsCastSyntax(e) ==
    e.kind \in {"TypeAssertionExpression", "AsExpression", "NonNullExpression"}

RECURSIVE HasCastSyntax(_)
HasCastSyntax(e) ==
    \/ IsCastSyntax(e)
    \/ /\ e.kind # "Identifier"
       /\ HasCastSyntax(e.expression)

RECURSIVE StaticType(_)
StaticType(e) ==
    IF e.kind = "NonNullExpression"
    THEN SelectSeq(StaticType(e.expression), LAMBDA t : t # "null" /\ t # "undefined")
    ELSE e.type

\* out is input with every assertion and non-null expression as a cast.
RECURSIVE IsCastOf(_, _)
IsCastOf(out, input) ==
    IF IsCastSyntax(input)
    THEN /\ out.kind = "ParenthesizedExpression"
         /\ out.expression.kind = "ParenthesizedExpression"
         /\ Len(out.expression.leadingComments) = 1
         /\ LET comment == out.expression.leadingComments[1]
            IN /\ ~comment.hasTrailingNewLine
               /\ Len(comment.tags) = 1
               /\ comment.tags[1].tagName = "type"
               /\ comment.tags[1].type =
                      typeToClosureOf(IF input.kind = "NonNullExpression"
                                      THEN StaticType(input)
                                      ELSE input.type)
         /\ IsCastOf(out.expression.expression, input.expression)
    ELSE IF input.kind = "Identifier"
    THEN out.kind = "Identifier" /\ out = input
    ELSE /\ out.kind = input.kind
         /\ IsCastOf(out.expression, input.expression)

\* C8: every type assertion, `as` expression and non-null expression is a
\* parenthesized expression around a parenthesized expression around the
\* visited operand; the inner one has one leading comment, of the single
\* tag `type`, without trailing newline; the type of a non-null expression
\* is the type of its operand without null and undefined; no assertion and
\* no non-null expression is left in the output.
C8_AssertionsBecomeCasts ==
    /\ \A i \in VisitedAs("ExpressionStatement") :
           /\ Len(Output(i)) = 1
           /\ IsCastOf(Output(i)[1].expression, sourceFile[i].expression)
           /\ ~HasCastSyntax(Output(i)[1].expression)
    /\ \A i \in VisitedAs("VariableStatement") :
           \A k \in 1 .. Len(sourceFile[i].declarations) :
               LET decl == sourceFile[i].declarations[k]
                   made == VariableStatementsOf(Output(i))[k].declarations[1]
               IN /\ Len(made.initializer) = Len(decl.initializer)
                  /\ decl.initializer # <<>> =>
                         /\ IsCastOf(made.initializer[1], decl.initializer[1])
                         /\ ~HasCastSyntax(made.initializer[1])

\* An assertion around a non-null expression has been rewritten.
C8_Witness ==
    \E i \in VisitedAs("ExpressionStatement") :
        /\ sourceFile[i].expression.kind = "AsExpression"
        /\ sourceFile[i].expression.expression.kind = "NonNullExpression"
        /\ Output(i)[1].expression.kind = "ParenthesizedExpression"
        /\ ~host.untyped

(***************************************************************************)
(* Type aliases, imports and forward declares, under SpecModule.           *)
(***************************************************************************)
\* nodes is the one statement `exports.<name>;` with one typedef tag.
IsExportsTypedef(nodes, name) ==
    /\ Len(nodes) = 1
    /\ nodes[1].kind = "ExpressionStatement"
    /\ nodes[1].expression.kind = "PropertyAccessExpression"
    /\ nodes[1].expression.expression = Identifier("exports")
    /\ nodes[1].expression.name = Identifier(name)
    /\ Len(nodes[1].leadingComments) = 1
    /\ Len(SelectSeq(nodes[1].leadingComments[1].tags,
                     LAMBDA t : t.tagName = "typedef")) = 1

IsExported(node) == "export" \in node.modifiers

\* C2, as stated: visitTypeAliasDeclaration emits the statement `exports.T`
\* with a typedef tag for every exported type alias T when the module
\* format is CommonJS, nothing when the format differs, and nothing for an
\* alias that is not exported.
C2_EveryExportedAlias ==
    \A i \in VisitedAs("TypeAliasDeclaration") :
        IF IsExported(sourceFile[i]) /\ host.module = "CommonJS"
        THEN IsExportsTypedef(Output(i), sourceFile[i].name.text)
        ELSE Output(i) = <<>>

\* C2, amended: the same for the exported aliases whose symbol is not also
\* a value; an alias whose symbol is also a value emits nothing.
C2_ExportedTypeOnlyAlias ==
    \A i \in VisitedAs("TypeAliasDeclaration") :
        IF /\ IsExported(sourceFile[i])
           /\ host.module = "CommonJS"
           /\ "Value" \notin sourceFile[i].symbol.flags
        THEN IsExportsTypedef(Output(i), sourceFile[i].name.text) /\ Emitted(i)
        ELSE Output(i) = <<>>

\* An exported alias of a type only has been visited under CommonJS and its
\* typedef stands in the output.
C2_Witness ==
    \E i \in VisitedAs("TypeAliasDeclaration") :
        /\ IsExported(sourceFile[i])
        /\ host.module = "CommonJS"
        /\ sourceFile[i].symbol.flags = {"TypeAlias"}
        /\ Len(Output(i)) = 1

\* The module path an import is keyed on.
ResolvedPath(importDecl) ==
    IF host.convertIndexImportShorthand /\ importDecl.resolvesToIndex
    THEN importDecl.moduleSpecifier \o "/index"
    ELSE importDecl.moduleSpecifier

Registered(modulePath) ==
    \E k \in 1 .. Len(forwardDeclares) : forwardDeclares[k].modulePath = modulePath

\* C4: an import declaration is returned unchanged; it registers a forward
\* declare, keyed on its resolved module path, exactly when it has an
\* import clause and its specifier resolves to a module symbol; every
\* import stands in the output as itself, and those that registered also
\* as a forward declare.
C4_ImportsKeptAndForwardDeclared ==
    \A i \in VisitedAs("ImportDeclaration") :
        LET importDecl == sourceFile[i]
            registers == /\ importDecl.importClause # <<>>
                         /\ importDecl.symbol.kind = "Symbol"
        IN /\ Len(Output(i)) = 1
           /\ Output(i)[1].kind = "ImportDeclaration"
           /\ Output(i)[1] = importDecl
           /\ Emitted(i)
           /\ (Len(trace[i].forward) > 0) <=> registers
           /\ registers =>
                  /\ Len(trace[i].forward) = 1
                  /\ trace[i].forward[1].modulePath = ResolvedPath(importDecl)
                  /\ trace[i].forward[1].explicitlyImported
                  /\ Registered(ResolvedPath(importDecl))
                  /\ pc = "done" =>
                         \E k \in 1 .. Len(statements) :
                             /\ statements[k].kind = "ForwardDeclare"
                             /\ statements[k].modulePath = ResolvedPath(importDecl)

\* The empty import `import {} from './dir'` of a module has been visited
\* and the forward declare of `./dir/index` is in the output.
C4_Witness ==
    /\ pc = "done"
    /\ host.convertIndexImportShorthand
    /\ \E i \in VisitedAs("ImportDeclaration") :
           /\ sourceFile[i].importClause = <<ImportClause("")>>
           /\ sourceFile[i].moduleSpecifier = "./dir"
           /\ Registered("./dir/index")

ForwardDeclaresIn(nodes) ==
    SelectSeq(nodes, LAMBDA n : n.kind = "ForwardDeclare")

\* C5: no forward declare is in the file while the traversal runs; when it
\* is over there is one forward declare per registered module, side by
\* side, after the leading comment statement of the file if there is one,
\* and before every other statement, imports included.
C5_SplicedAfterTraversal ==
    /\ pc = "visit" => ForwardDeclaresIn(statements) = <<>>
    /\ pc = "done" =>
           LET first == IF /\ Len(statements) > 0
                           /\ statements[1].kind = "NotEmittedStatement"
                        THEN 2 ELSE 1
               n == Len(forwardDeclares)
           IN /\ ForwardDeclaresIn(statements) = forwardDeclares
              /\ \A k \in 1 .. Len(statements) :
                     (statements[k].kind = "ForwardDeclare")
                         <=> (k \in first .. first + n - 1)
              /\ \A j, k \in 1 .. n :
                     forwardDeclares[j].modulePath = forwardDeclares[k].modulePath
                         => j = k
              /\ \A i \in Visited : \A k \in 1 .. Len(trace[i].forward) :
                     Registered(trace[i].forward[k].modulePath)
              /\ \A j, k \in 1 .. Len(statements) :
                     (/\ statements[j].kind = "ForwardDeclare"
                      /\ statements[k].kind \in
                             {"ImportDeclaration", "VariableStatement",
                              "ExpressionStatement"})
                         => j < k

\* Two modules were registered by the second and a later statement of a
\* file that starts with a fileoverview comment, and the file is spliced.
C5_Witness ==
    /\ pc = "done"
    /\ Len(forwardDeclares) = 2
    /\ sourceFile[1].kind = "NotEmittedStatement"
    /\ statements[2].kind = "ForwardDeclare"
    /\ statements[3].kind = "ForwardDeclare"
    /\ \E k \in 4 .. Len(statements) : statements[k].kind = "ImportDeclaration"

(***************************************************************************)
(* Ambient statements, under Spec.                                         *)
(***************************************************************************)
\* The node or one of its ancestors has the declare modifier.
InAmbientContext(path) ==
    \E k \in 1 .. Len(path) : "declare" \in path[k].modifiers

\* The visitor gave the node back as it was and did nothing else.
Untouched(r, node) ==
    /\ Len(r.nodes) = 1
    /\ r.nodes[1].kind = node.kind
    /\ r.nodes[1] = node
    /\ r.forward = <<>>
    /\ r.errors = <<>>
    /\ r.warns = <<>>

ExternsVisits(k) == \E j \in 1 .. Len(externsVisited) : externsVisited[j] = k

HasLeadingTag(decl, tagName) ==
    \E c \in 1 .. Len(decl.leadingComments) :
        \E t \in 1 .. Len(decl.leadingComments[c].tags) :
            decl.leadingComments[c].tags[t].tagName = tagName

\* C11: an interface without members is replaced by the function
\* declaration alone, no member-type-declaration, and the leading comment
\* of the function has a record tag and a struct tag.
C11_EmptyInterfaceRecordStruct ==
    \A i \in VisitedAs("InterfaceDeclaration") :
        (/\ sourceFile[i].members = <<>>
         /\ sourceFile[i].symbol.kind = "Symbol"
         /\ "Value" \notin sourceFile[i].symbol.flags)
        => /\ Len(Output(i)) = 1
           /\ Output(i)[1].kind = "FunctionDeclaration"
           /\ HasLeadingTag(Output(i)[1], "record")
           /\ HasLeadingTag(Output(i)[1], "struct")

(***************************************************************************)
(* SpecHeritage: a class or an interface with heritage clauses, declared   *)
(* or not, in a file the transformer and createExterns both run on.        *)
(***************************************************************************)
MaxHeritage == 2

BlackListed(sym) == [sym EXCEPT !.blacklisted = TRUE]

\* implements J, K ...: what the name after `implements` or an interface's
\* `extends` can resolve to.
TypeHeritage ==
    <<HeritageType("C", Symbol("C", {"Class", "Value"}, <<>>)),
      HeritageType("Partial<X>", NoSymbol),
      HeritageType("J", Symbol("J", {"Interface"}, <<>>)),
      HeritageType("V", Symbol("V", {"Interface", "Variable", "Value"}, <<>>)),
      HeritageType("T", Symbol("T", {"TypeAlias"},
                               <<Symbol("K", {"Interface"}, <<>>)>>)),
      HeritageType("U", Symbol("U", {"TypeAlias"},
                               <<Symbol("D", {"Class", "Value"}, <<>>)>>)),
      HeritageType("W", Symbol("W", {"TypeAlias"}, <<>>)),
      HeritageType("M", Symbol("M", {"Alias"},
                               <<Symbol("L", {"Interface"}, <<>>)>>)),
      HeritageType("B", BlackListed(Symbol("B", {"Interface"}, <<>>)))>>

\* extends Base: what the expression after a class's `extends` can be.
BaseHeritage ==
    {HeritageType("Base", Symbol("Base", {"Class", "Value"}, <<>>)),
     HeritageType("Ctor", Symbol("Ctor", {"Variable", "Value"}, <<>>)),
     HeritageType("Lib", BlackListed(Symbol("Lib", {"Class", "Value"}, <<>>))),
     HeritageType("Imp", Symbol("Imp", {"Alias"},
                             <<Symbol("Impl", {"Class", "Value"}, <<>>)>>)),
     HeritageType("MyMixin(Base)", NoSymbol)}

\* The lists of up to n heritage types, in the order of TypeHeritage.
RECURSIVE SubSeqsOf(_, _)
SubSeqsOf(s, n) ==
    IF s = <<>> \/ n = 0 THEN {<<>>}
    ELSE SubSeqsOf(Tail(s), n)
         \cup {<<Head(s)>> \o rest : rest \in SubSeqsOf(Tail(s), n - 1)}

TypeClauses(token) ==
    {IF types = <<>> THEN <<>> ELSE <<HeritageClause(token, types)>> :
        types \in SubSeqsOf(TypeHeritage, MaxHeritage)}

BaseClauses ==
    {<<>>} \cup {<<HeritageClause("extends", <<base>>)>> : base \in BaseHeritage}

HeritageDeclarations ==
    {ClassDeclaration(Identifier("A"), modifiers, base \o impl, <<>>) :
        modifiers \in {{}, {"declare"}},
        base \in BaseClauses, impl \in TypeClauses("implements")}
    \cup
    {InterfaceDeclaration(Identifier("I"), modifiers, ext, <<>>,
                          Symbol("I", {"Interface"}, <<>>)) :
        modifiers \in {{}, {"declare"}}, ext \in TypeClauses("extends")}

InitHeritage ==
    /\ \E decl \in HeritageDeclarations : sourceFile = <<decl>>
    /\ fileName = "a.ts"
    /\ host \in {h \in Hosts : h.module = "CommonJS"
                               /\ ~h.convertIndexImportShorthand}
    /\ InitTransformer

NextHeritage ==
    \/ VisitAmbient
    \/ VisitClassDeclaration
    \/ VisitInterfaceDeclaration
    \/ InsertForwardDeclares
    \/ ExternsStatement

SpecHeritage == InitHeritage /\ [][NextHeritage]_vars

(***************************************************************************)
(* Heritage clauses, under SpecHeritage.  The tags maybeAddHeritageClauses *)
(* added are read off the comment it was called for: the comment of the    *)
(* class, or of the function standing for the interface, in the            *)
(* transformer, and the comment of the stub in the externs.                *)
(***************************************************************************)
IsHeritageTag(tag) == tag.tagName \in {"", "extends", "implements"}

\* The heritage tags on the output of the transformer for statement i.
TransformedHeritage(i) ==
    LET node == Output(i)[1]
    IN SelectSeq(IF node.kind = "ClassDeclaration" THEN node.jsdoc
                 ELSE node.leadingComments[1].tags,
                 IsHeritageTag)

\* The heritage tags in what createExterns emitted on its k-th visit.
ExternsHeritage(k) ==
    SelectSeq(Flatten(MapSeq(externsTrace[k].output, LAMBDA piece : piece.tags)),
              IsHeritageTag)

\* The calls of maybeAddHeritageClauses so far: the declaration each was
\* for, whether that was ambient, and the tags it added.
HeritageCalls ==
    {[decl |-> sourceFile[i], ambient |-> FALSE, tags |-> TransformedHeritage(i)] :
        i \in {j \in VisitedAs("ClassDeclaration")
                     \cup VisitedAs("InterfaceDeclaration") : ~host.untyped}}
    \cup
    {[decl |-> sourceFile[externsTrace[k].at], ambient |-> TRUE,
      tags |-> ExternsHeritage(k)] : k \in 1 .. Len(externsTrace)}

Count(s, P(_)) == Len(SelectSeq(s, P))

TypesOf(decl, tokens) ==
    Flatten(MapSeq(SelectSeq(decl.heritageClauses,
                             LAMBDA hc : hc.token \in tokens),
                   LAMBDA hc : hc.types))

IsClass(decl) == decl.kind = "ClassDeclaration"

Unresolved(impl) == impl.symbol.kind = "undefined"

IsNote(tag) ==
    /\ tag.tagName = ""
    /\ tag.text = "NOTE: tsickle could not resolve supertype, "
                      \o "class definition may be incomplete.\n"

\* The tags added under the name of a symbol.
TagsFor(call, name) == SelectSeq(call.tags, LAMBDA t : t.type = name)

\* C12 as stated: every heritage type without a symbol, of whatever clause
\* of a class or an interface, ambient or not, gets the note and no
\* extends/implements tag.
C12_NoteForEveryUnresolved ==
    \A call \in HeritageCalls :
        /\ Count(call.tags, IsNote)
               = Count(TypesOf(call.decl, {"extends", "implements"}), Unresolved)
        /\ TagsFor(call, "") = SelectSeq(call.tags, IsNote)

\* C12, amended: the note is added for every heritage type without a symbol
\* of a clause that is processed -- any clause of an interface, an
\* `implements` clause of a class, an `extends` clause of an ambient class
\* -- with no extends/implements tag for it, and the types after it are
\* still translated; the `extends` clause of a class that is not ambient is
\* skipped before its expression is resolved and gets no note.
C12_NoteForUnresolvedOfProcessedClause ==
    \A call \in HeritageCalls :
        LET processed ==
                IF IsClass(call.decl) /\ ~call.ambient
                THEN TypesOf(call.decl, {"implements"})
                ELSE TypesOf(call.decl, {"extends", "implements"})
        IN /\ Count(call.tags, IsNote) = Count(processed, Unresolved)
           /\ TagsFor(call, "") = SelectSeq(call.tags, IsNote)
           /\ \A k \in 1 .. Len(processed) :
                  (/\ k > 1
                   /\ Unresolved(processed[k - 1])
                   /\ processed[k].symbol.flags = {"Interface"}
                   /\ ~processed[k].symbol.blacklisted)
                  => Len(TagsFor(call, processed[k].symbol.name)) = 1

C12_Witness ==
    \E call \in HeritageCalls :
        /\ IsClass(call.decl)
        /\ call.ambient
        /\ Some(TypesOf(call.decl, {"extends"}), Unresolved)
        /\ Count(call.tags, IsNote) >= 1

\* A heritage type whose name is that of a type: an interface or a class.
NamesType(impl) ==
    /\ impl.symbol.kind = "Symbol"
    /\ impl.symbol.flags = {"Interface"} \/ "Class" \in impl.symbol.flags
    /\ ~impl.symbol.blacklisted

\* C13: every heritage type of an interface that resolves to an interface
\* or a class that is not blacklisted gets exactly one tag, named extends,
\* and no heritage type of an interface gets an implements tag.
C13_InterfaceHeritageIsExtends ==
    \A call \in HeritageCalls :
        ~IsClass(call.decl)
        => LET types == TypesOf(call.decl, {"extends", "implements"})
           IN /\ \A k \in 1 .. Len(types) :
                     NamesType(types[k])
                     => TagsFor(call, types[k].symbol.name)
                            = <<Tag("extends", types[k].symbol.name, "")>>
              /\ ~Some(call.tags, LAMBDA t : t.tagName = "implements")

\* The symbol a heritage type stands for in the end: that of the aliased
\* type for a type alias, the aliased symbol for an import alias.
Resolved(impl) ==
    LET sym == impl.symbol
    IN IF sym.kind = "undefined" THEN NoSymbol
       ELSE IF "TypeAlias" \in sym.flags
       THEN (IF sym.target = <<>> THEN NoSymbol ELSE sym.target[1])
       ELSE IF "Alias" \in sym.flags THEN sym.target[1]
       ELSE sym

\* The tags of the call that come from the `extends` clause of a class: the
\* names after `extends` are not those after `implements`.
BaseNames ==
    {Resolved(base).name : base \in BaseHeritage} \ {""}

BaseTags(call) == SelectSeq(call.tags, LAMBDA t : t.type \in BaseNames)

\* What an `implements` clause of a class is to yield: one tag per type
\* standing for an interface.
ImplementsProcessed(call) ==
    \A impl \in {TypesOf(call.decl, {"implements"})[k] :
                    k \in 1 .. Len(TypesOf(call.decl, {"implements"}))} :
        (Resolved(impl).flags = {"Interface"} /\ ~Resolved(impl).blacklisted)
        => TagsFor(call, Resolved(impl).name)
               = <<Tag("implements", Resolved(impl).name, "")>>

\* C14 as stated: the extends clause of a class adds nothing when the class
\* is not ambient and a tag for each heritage type that resolves and is not
\* blacklisted when it is; implements clauses are processed either way.
C14_ExtendsTagForEveryResolvable ==
    \A call \in HeritageCalls :
        IsClass(call.decl)
        => LET bases == TypesOf(call.decl, {"extends"})
           IN /\ ~call.ambient
                 => /\ BaseTags(call) = <<>>
                    /\ Count(call.tags, IsNote)
                           = Count(TypesOf(call.decl, {"implements"}), Unresolved)
              /\ call.ambient
                 => \A k \in 1 .. Len(bases) :
                        (/\ Resolved(bases[k]).kind = "Symbol"
                         /\ ~Resolved(bases[k]).blacklisted)
                        => Len(TagsFor(call, Resolved(bases[k]).name)) = 1
              /\ ImplementsProcessed(call)

\* C14, amended: the extends clause of a class adds nothing when the class
\* is not ambient; when it is ambient it adds one extends tag for a
\* heritage type resolving to a class that is not blacklisted, the note for
\* one that does not resolve, and nothing for one resolving to a value that
\* is not a class or to a blacklisted symbol; implements clauses are
\* processed either way.
C14_ExtendsTagForResolvableClass ==
    \A call \in HeritageCalls :
        IsClass(call.decl)
        => LET bases == TypesOf(call.decl, {"extends"})
           IN /\ ~call.ambient
                 => /\ BaseTags(call) = <<>>
                    /\ Count(call.tags, IsNote)
                           = Count(TypesOf(call.decl, {"implements"}), Unresolved)
              /\ call.ambient
                 => \A k \in 1 .. Len(bases) :
                        LET sym == Resolved(bases[k])
                        IN IF sym.kind = "undefined"
                           THEN Count(call.tags, IsNote) >= 1
                           ELSE TagsFor(call, sym.name)
                                    = IF "Class" \in sym.flags /\ ~sym.blacklisted
                                      THEN <<Tag("extends", sym.name, "")>>
                                      ELSE <<>>
              /\ ImplementsProcessed(call)

C14_Witness ==
    \E call \in HeritageCalls :
        /\ IsClass(call.decl)
        /\ call.ambient
        /\ BaseTags(call) = <<Tag("extends", "Base", "")>>
        /\ Some(call.tags, LAMBDA t : t.tagName = "implements")

\* What the implements clause of a class yields for the symbol a heritage
\* type stands for, blacklisted symbols set aside or not.
ImplementsYields(call, impl, blacklistSkips) ==
    LET sym == Resolved(impl)
        hasExtends == TypesOf(call.decl, {"extends"}) # <<>>
        tags == TagsFor(call, sym.name)
    IN IF sym.kind = "undefined" THEN TRUE
       ELSE IF blacklistSkips /\ sym.blacklisted THEN tags = <<>>
       ELSE IF "Class" \in sym.flags
       THEN tags = IF hasExtends THEN <<>>
                   ELSE <<Tag("extends", sym.name, "")>>
       ELSE IF "Value" \in sym.flags THEN tags = <<>>
       ELSE IF "Interface" \in sym.flags
       THEN tags = <<Tag("implements", sym.name, "")>>
       ELSE TRUE

\* C15 as stated: in an implements clause of a class, a class symbol yields
\* an extends tag unless the class has an extends clause, an interface
\* symbol yields an implements tag, a value that is not a class yields no
\* tag; type aliases and import aliases are decided on what they stand for.
C15_ImplementsClause ==
    \A call \in {c \in HeritageCalls : IsClass(c.decl)} :
        LET types == TypesOf(call.decl, {"implements"})
        IN \A k \in 1 .. Len(types) : ImplementsYields(call, types[k], FALSE)

\* C15, amended: the same, for symbols that are not blacklisted; a heritage
\* type standing for a blacklisted symbol yields no tag.
C15_ImplementsClauseNotBlackListed ==
    \A call \in {c \in HeritageCalls : IsClass(c.decl)} :
        LET types == TypesOf(call.decl, {"implements"})
        IN \A k \in 1 .. Len(types) : ImplementsYields(call, types[k], TRUE)

C15_Witness ==
    \E call \in HeritageCalls :
        /\ IsClass(call.decl)
        /\ ~call.ambient
        /\ TypesOf(call.decl, {"extends"}) = <<>>
        /\ TagsFor(call, "D") = <<Tag("extends", "D", "")>>
        /\ TagsFor(call, "L") = <<Tag("implements", "L", "")>>

(***************************************************************************)
(* SpecExterns: createExterns on a declaration file or on a file with      *)
(* declared statements.                                                    *)
(***************************************************************************)
ParamO == Parameter(Identifier("x"), {}, "string", <<>>)
ParamN == Parameter(Identifier("x"), {}, "number", <<>>)

PropertySignature(name, modifiers, type) ==
    Member("PropertySignature", name, modifiers, <<>>, FALSE, type,
           getText(name) \o ": " \o type \o ";")

MethodSignature(name, modifiers, parameters, type) ==
    Member("MethodSignature", name, modifiers, parameters, FALSE, type,
           getText(name) \o "(): " \o type \o ";")

FunctionSignature(name, parameters, type) ==
    Member("FunctionDeclaration", name, {"declare"}, parameters, FALSE, type,
           "declare function " \o getText(name) \o "(): " \o type \o ";")

InterfaceNamed(name, modifiers, heritageClauses, members) ==
    InterfaceDeclaration(Identifier(name), modifiers, heritageClauses, members,
                         Symbol(name, {"Interface"}, <<>>))

ExtendsBase ==
    <<HeritageClause("extends",
          <<HeritageType("Base", Symbol("Base", {"Class", "Value"}, <<>>))>>)>>

\* interface Foo { x: number; }
\* declare interface Foo { y: string; m(x: number): void; }
\* declare interface Symbol { q: number; }
ExternsInterfaces ==
    {InterfaceNamed("Foo", {}, <<>>,
         <<PropertySignature(Identifier("x"), {}, "number")>>),
     InterfaceNamed("Foo", {"declare"}, <<>>,
         <<PropertySignature(Identifier("y"), {}, "string"),
           MethodSignature(Identifier("m"), {}, <<ParamN>>, "void")>>),
     InterfaceNamed("Symbol", {"declare"}, <<>>,
         <<PropertySignature(Identifier("q"), {}, "number")>>)}

\* declare class A extends Base { constructor(x: number); constructor(x: string); }
\* declare class A extends Base { static s: number; }
\* declare class A { m(x: number): void; "p q": number; static m(): void;
\*                   [key: string]: number; p: string; m(x: string): number; }
\* declare class { }
ExternsClasses ==
    {ClassDeclaration(Identifier("A"), {"declare"}, ExtendsBase,
         <<Constructor(<<ParamN>>, FALSE), Constructor(<<ParamO>>, FALSE)>>),
     ClassDeclaration(Identifier("A"), {"declare"}, ExtendsBase,
         <<Member("PropertyDeclaration", Identifier("s"), {"static"}, <<>>,
                  FALSE, "number", "static s: number;")>>),
     ClassDeclaration(Identifier("A"), {"declare"}, <<>>,
         <<MethodSignature(Identifier("m"), {}, <<ParamN>>, "void"),
           PropertySignature(StringLiteral("p q"), {}, "number"),
           MethodSignature(Identifier("m"), {"static"}, <<>>, "void"),
           Member("IndexSignature", NoName, {}, <<>>, FALSE, "number",
                  "[key: string]: number;"),
           PropertySignature(Identifier("p"), {}, "string"),
           MethodSignature(Identifier("m"), {}, <<ParamO>>, "number")>>),
     ClassDeclaration(NoName, {"declare"}, <<>>, <<>>)}

\* declare function f(x: number): void;  declare function f(x: string): number;
\* declare function g(): void;
ExternsFunctions ==
    {FunctionSignature(Identifier("f"), <<ParamN>>, "void"),
     FunctionSignature(Identifier("f"), <<ParamO>>, "number"),
     FunctionSignature(Identifier("g"), <<>>, "void")}

DeclaredV ==
    VariableStatement({"declare"}, "var",
        <<VariableDeclaration(Identifier("v"), <<>>, "number", FALSE, "")>>,
        <<>>, <<>>)

\* declare var module: number, {a, b}: {a: number, b: number}, w: string;
DeclaredVars ==
    VariableStatement({"declare"}, "var",
        <<VariableDeclaration(Identifier("module"), <<>>, "number", FALSE, ""),
          VariableDeclaration(
              [kind |-> "ObjectBindingPattern", text |-> "{a, b}"],
              <<>>, "{a: number, b: number}", FALSE, ""),
          VariableDeclaration(Identifier("w"), <<>>, "string", FALSE, "")>>,
        <<>>, <<>>)

\* declare module "foo" { var v: number; }
\* declare module "foo-bar" { interface Foo { x: number; } }
\* declare namespace N { interface Foo { x: number; }
\*                       function f(x: string): number; }
\* declare namespace N { module "foo" { var v: number; } }
\* declare global { function g(): void; }
\* declare namespace N { interface Symbol { q: number; }  <DeclaredVars> }
ExternsModules ==
    {ModuleDeclaration(StringLiteral("foo"), {"declare"}, <<DeclaredV>>),
     ModuleDeclaration(StringLiteral("foo-bar"), {"declare"},
         <<InterfaceNamed("Foo", {}, <<>>,
               <<PropertySignature(Identifier("x"), {}, "number")>>),
           ModuleDeclaration(Identifier("global"), {},
               <<FunctionSignature(Identifier("g"), <<>>, "void")>>)>>),
     ModuleDeclaration(Identifier("N"), {}, <<>>),
     ModuleDeclaration(Identifier("N"), {"declare"},
         <<InterfaceNamed("Foo", {}, <<>>,
               <<PropertySignature(Identifier("x"), {}, "number")>>),
           FunctionSignature(Identifier("f"), <<ParamO>>, "number")>>),
     ModuleDeclaration(Identifier("N"), {"declare"},
         <<ModuleDeclaration(StringLiteral("foo"), {}, <<DeclaredV>>)>>),
     ModuleDeclaration(Identifier("global"), {"declare"},
         <<FunctionSignature(Identifier("g"), <<>>, "void")>>),
     ModuleDeclaration(Identifier("N"), {"declare"},
         <<InterfaceNamed("Symbol", {}, <<>>,
               <<PropertySignature(Identifier("q"), {}, "number")>>),
           DeclaredVars>>)}

\* declare enum E { a, "b-c" }   declare type T = string;
\* import q = N.Foo;   import r = require("r");   export default v;
ExternsOthers ==
    {DeclaredV,
     EnumDeclaration(Identifier("E"), {"declare"},
         <<[name |-> Identifier("a")], [name |-> StringLiteral("b-c")]>>),
     DeclaredVars,
     Declared(TypeAliasT),
     ImportEqualsDeclaration(Identifier("q"),
         [kind |-> "QualifiedName", text |-> "N.Foo"]),
     ImportEqualsDeclaration(Identifier("r"),
         [kind |-> "ExternalModuleReference", text |-> "require(\"r\")"]),
     [kind |-> "ExportAssignment", modifiers |-> {}]}

ExternsStatements ==
    ExternsInterfaces \cup ExternsClasses \cup ExternsFunctions
        \cup ExternsModules \cup ExternsOthers

InitExterns ==
    /\ sourceFile \in SeqsUpTo(ExternsStatements, MaxStmts) \ {<<>>}
    /\ fileName \in {"lib/a.d.ts", "a.ts"}
    /\ host \in {h \in Hosts : /\ h.module = "CommonJS"
                               /\ ~h.convertIndexImportShorthand
                               /\ ~h.logWarning}
    /\ InitTransformer

NextExterns == ExternsStatement

SpecExterns == InitExterns /\ [][NextExterns]_vars

(***************************************************************************)
(* The externs of a file, under SpecExterns.                               *)
(***************************************************************************)
ExternsDone == epos > Len(sourceFile)

StartsWith(str, prefix) ==
    Len(str) >= Len(prefix) /\ SubSeq(str, 1, Len(prefix)) = prefix

\* The piece is the stub of a function or type of that qualified name.
IsStubOf(piece, qualifiedName) ==
    \/ StartsWith(piece.text, "function " \o qualifiedName \o "(")
    \/ StartsWith(piece.text, qualifiedName \o " = function(")

\* All declarations of the file, and those of classes and interfaces.
FileDeclarations == DeclarationsIn(sourceFile, <<>>, <<>>)

IsTypeDeclaration(d) == d.kind \in {"ClassDeclaration", "InterfaceDeclaration"}

\* The scope is made of namespaces alone, so that the qualified name of a
\* declaration in it is the names of the scope and its own, dotted.
InNamespaces(d) == \A k \in 1 .. Len(d.scope) : ~StartsWith(d.scope[k], "\"")

QualifiedName(d) == Join(Append(d.scope, d.name), ".")

SameSymbol(d, e) == d.scope = e.scope /\ d.name = e.name

\* What createExterns emitted on the top-level statement holding d.
EmittedAt(d) ==
    Flatten(MapSeq(SelectSeq(externsTrace, LAMBDA t : t.at = d.at[1]),
                   LAMBDA t : t.output))

DeclarationSet(P(_)) ==
    {FileDeclarations[k] :
        k \in {j \in 1 .. Len(FileDeclarations) : P(FileDeclarations[j])}}

\* The lines of the property and method members of the declaration.
MemberLines(d) ==
    LET decl == NodeAt(sourceFile, d.at)
        line(m) ==
            QualifiedName(d)
                \o (IF "static" \in m.modifiers THEN "." ELSE ".prototype.")
                \o m.name.text
    IN {"\n" \o line(decl.members[k]) \o ";\n" :
           k \in {j \in 1 .. Len(decl.members) :
                     /\ decl.members[j].kind
                            \in {"PropertySignature", "PropertyDeclaration"}
                     /\ decl.members[j].name.kind = "Identifier"}}
       \cup
       {line(decl.members[k]) \o " = function(" :
           k \in {j \in 1 .. Len(decl.members) : IsMethod(decl.members[j])}}

\* C16: once the file is through, the stub of a class or interface name
\* declared several times is in the output exactly once, emitted on the
\* first declaration of the symbol, and every declaration createExterns
\* visits emitted the lines of its own property and method members.
C16_OneStubPerRepeatedType ==
    ExternsDone
    => \A d \in DeclarationSet(IsTypeDeclaration) :
           (/\ InNamespaces(d)
            /\ QualifiedName(d) \notin CLOSURE_EXTERNS_BLACKLIST
            /\ ExternsVisits(d.at[1])
            /\ \E e \in DeclarationSet(IsTypeDeclaration) :
                   SameSymbol(d, e) /\ e.at # d.at)
           => /\ Count(output, LAMBDA p : IsStubOf(p, QualifiedName(d))) = 1
              /\ LET first == SymbolDeclarations(d.scope, d.name)[1]
                 IN Some(EmittedAt(first),
                         LAMBDA p : IsStubOf(p, QualifiedName(d)))
              /\ \A line \in MemberLines(d) :
                     Some(EmittedAt(d), LAMBDA p : StartsWith(p.text, line))

\* The function declarations of the file.
IsFunctionDeclaration(d) == d.kind = "FunctionDeclaration"

\* The pieces before and at the first stub of that name.
UpToStub(pieces, qualifiedName) ==
    LET k == CHOOSE j \in 1 .. Len(pieces) :
                 /\ IsStubOf(pieces[j], qualifiedName)
                 /\ \A i \in 1 .. j - 1 : ~IsStubOf(pieces[i], qualifiedName)
    IN SubSeq(pieces, 1, k)

\* The comment written just before the first stub of that name.
CommentOfStub(pieces, qualifiedName) ==
    LET upTo == UpToStub(pieces, qualifiedName)
    IN upTo[Len(upTo) - 1].tags

TypeVisits ==
    {t \in 1 .. Len(externsTrace) :
        /\ sourceFile[externsTrace[t].at].kind
               \in {"ClassDeclaration", "InterfaceDeclaration"}
        /\ sourceFile[externsTrace[t].at].name.kind = "Identifier"
        /\ sourceFile[externsTrace[t].at].name.text
               \notin CLOSURE_EXTERNS_BLACKLIST}

\* The groups of the methods of a declaration, <<name, static>>, in the
\* order in which each first occurs.
MethodGroups(decl) ==
    Distinct(MapSeq(SelectSeq(decl.members, IsMethod),
                    LAMBDA m : <<m.name.text, "static" \in m.modifiers>>))

MethodsOf(decl, group) ==
    SelectSeq(decl.members,
        LAMBDA m : /\ IsMethod(m)
                   /\ <<m.name.text, "static" \in m.modifiers>> = group)

StubPath(decl, group) ==
    decl.name.text \o (IF group[2] THEN "." ELSE ".prototype.") \o group[1]

\* The place of the only piece satisfying P.
PlaceOf(pieces, P(_)) == CHOOSE k \in 1 .. Len(pieces) : P(pieces[k])

IsMethodStub(piece, decl) ==
    \E k \in 1 .. Len(piece.text) :
        /\ SubSeq(piece.text, k, Len(piece.text)) = " = function() {};\n"
              \/ SubSeq(piece.text, k, Len(piece.text)) = " = function(x) {};\n"
        /\ StartsWith(piece.text, decl.name.text \o ".")

IsPropertyOrTodo(piece, decl) ==
    \/ StartsWith(piece.text, "\n" \o decl.name.text \o ".")
    \/ StartsWith(piece.text, "\n/* TODO: ")

\* C18: in what writeExternsType writes for a declaration, each group of
\* methods of one name and one static-ness has exactly one stub, at
\* <Type>.<name> for static methods and <Type>.prototype.<name> for the
\* others, with the types of all methods of the group merged in its
\* comment; the stubs are in the order of first occurrence of the groups,
\* there is no other method stub, and all of them come after the property
\* lines and the TODO comments.
C18_OneStubPerMethodGroup ==
    \A t \in TypeVisits :
        LET decl == sourceFile[externsTrace[t].at]
            pieces == externsTrace[t].output
            groups == MethodGroups(decl)
            place(g) ==
                PlaceOf(pieces, LAMBDA p : IsStubOf(p, StubPath(decl, groups[g])))
        IN /\ \A g \in 1 .. Len(groups) :
                  LET methods == MethodsOf(decl, groups[g])
                      comment == pieces[place(g) - 1].tags
                  IN /\ Count(pieces,
                           LAMBDA p : IsStubOf(p, StubPath(decl, groups[g]))) = 1
                     /\ comment[Len(comment)]
                            = Tag("return",
                                  IF host.untyped THEN "?"
                                  ELSE UnionType(MapSeq(methods, LAMBDA m : m.type)),
                                  "")
                     /\ \A i \in 1 .. Len(methods[1].parameters) :
                            comment[i].type
                                = IF host.untyped THEN "?"
                                  ELSE UnionType(MapSeq(methods,
                                           LAMBDA m : m.parameters[i].type))
           /\ \A g, h \in 1 .. Len(groups) : g < h => place(g) < place(h)
           /\ Count(pieces, LAMBDA p : IsMethodStub(p, decl)) = Len(groups)
           /\ \A i, j \in 1 .. Len(pieces) :
                  (IsPropertyOrTodo(pieces[i], decl) /\ IsMethodStub(pieces[j], decl))
                  => i < j

C18_Witness ==
    \E t \in TypeVisits :
        LET decl == sourceFile[externsTrace[t].at]
            pieces == externsTrace[t].output
        IN /\ Len(MethodGroups(decl)) = 2
           /\ Len(SelectSeq(decl.members, IsMethod)) = 3
           /\ Some(pieces, LAMBDA p : p.text = "A.prototype.m = function(x) {};\n")
           /\ Some(pieces, LAMBDA p : p.text = "A.m = function() {};\n")
           /\ Some(pieces, LAMBDA p : p.text = "\nA.prototype.p;\n")

\* C19: the comment of the stub of a class has constructor, struct and the
\* heritage tags of the class, whether the class declares constructors or
\* not.
C19_ClassStubCommentHasHeritage ==
    \A t \in TypeVisits :
        LET decl == sourceFile[externsTrace[t].at]
            pieces == externsTrace[t].output
        IN (/\ decl.kind = "ClassDeclaration"
            /\ Some(pieces, LAMBDA p : IsStubOf(p, decl.name.text)))
           => LET comment == CommentOfStub(pieces, decl.name.text)
                  heritage == maybeAddHeritageClauses(<<>>, <<decl>>)
              IN /\ Some(comment, LAMBDA tag : tag.tagName = "constructor")
                 /\ Some(comment, LAMBDA tag : tag.tagName = "struct")
                 /\ \A k \in 1 .. Len(heritage) :
                        Some(comment, LAMBDA tag : tag = heritage[k])

\* The modules with a string for name that createExterns has visited.
IsStringModule(d) == d.kind = "ModuleDeclaration" /\ StartsWith(d.name, "\"")

VisitedStringModules ==
    {d \in DeclarationSet(IsStringModule) : ExternsVisits(d.at[1])}

ChildObject(d) ==
    "tsickle_declare_module."
        \o mangledImportName(SubSeq(d.name, 2, Len(d.name) - 1)) \o " = {};\n"

\* C20: once the file is through, if it had m >= 1 modules with a string
\* for name, `var tsickle_declare_module = {};` is in the output exactly
\* once and the child object of each module symbol exactly once, both
\* outside of any enclosing namespace.
C20_DeclareModuleOnce ==
    (ExternsDone /\ VisitedStringModules # {})
    => /\ Count(output,
             LAMBDA p : p.text = "var tsickle_declare_module = {};\n") = 1
       /\ \A d \in VisitedStringModules :
              Count(output, LAMBDA p : p.text = ChildObject(d)) = 1

(***************************************************************************)
(* SpecMangle: createExterns on a declaration file of one or two declared  *)
(* modules, `declare module "<name>" { var v: number; }`, for every name   *)
(* of up to MaxNameLen characters among a letter, an underscore, a hyphen. *)
(***************************************************************************)
MaxNameLen == 3

RECURSIVE StringsOver(_, _)
StringsOver(chars, n) ==
    IF n = 0 THEN {""}
    ELSE LET shorter == StringsOver(chars, n - 1)
         IN shorter \cup {c \o s : c \in chars, s \in shorter}

ModuleNames == StringsOver({"a", "_", "-"}, MaxNameLen) \ {""}

DeclaredModule(name) ==
    ModuleDeclaration(StringLiteral(name), {"declare"}, <<DeclaredV>>)

InitMangle ==
    /\ \E m, n \in ModuleNames :
           sourceFile \in {<<DeclaredModule(m)>>,
                           <<DeclaredModule(m), DeclaredModule(n)>>}
    /\ fileName = "lib/a.d.ts"
    /\ host \in {h \in Hosts : /\ h.module = "CommonJS"
                               /\ ~h.convertIndexImportShorthand
                               /\ ~h.logWarning /\ ~h.untyped}
    /\ InitTransformer

NextMangle == ExternsStatement

SpecMangle == InitMangle /\ [][NextMangle]_vars

\* Every occurrence of the character doubled.
RECURSIVE DoubleEvery(_, _)
DoubleEvery(str, char) ==
    IF str = "" THEN ""
    ELSE (IF CharAt(str, 1) = char THEN char \o char ELSE CharAt(str, 1))
         \o DoubleEvery(SubSeq(str, 2, Len(str)), char)

EndsWith(str, suffix) ==
    /\ Len(str) >= Len(suffix)
    /\ SubSeq(str, Len(str) - Len(suffix) + 1, Len(str)) = suffix

\* The child identifiers declared under tsickle_declare_module on the
\* t-th visit of createExterns.
ChildIdentifiers(t) ==
    {SubSeq(p.text, Len("tsickle_declare_module.") + 1, Len(p.text) - Len(" = {};\n")) :
        p \in {externsTrace[t].output[k] :
                  k \in {j \in 1 .. Len(externsTrace[t].output) :
                            /\ StartsWith(externsTrace[t].output[j].text,
                                          "tsickle_declare_module.")
                            /\ EndsWith(externsTrace[t].output[j].text,
                                        " = {};\n")}}}

\* The visits of createExterns to the first declaration of a declared module.
FirstModuleVisits ==
    {t \in 1 .. Len(externsTrace) :
        \A u \in 1 .. t - 1 :
            sourceFile[externsTrace[u].at].name.text
                # sourceFile[externsTrace[t].at].name.text}

\* C21: the identifier a declared module is given is its name with every
\* underscore doubled and then every character that is not an ASCII letter
\* replaced by an underscore; it is made of ASCII letters and underscores.
C21_MangledName ==
    \A t \in FirstModuleVisits :
        LET name == sourceFile[externsTrace[t].at].name.text
        IN /\ ChildIdentifiers(t) = {ReplaceNonAlpha(DoubleEvery(name, "_"))}
           /\ \A id \in ChildIdentifiers(t) :
                  \A k \in 1 .. Len(id) : CharAt(id, k) \in Alpha \cup {"_"}

\* C29: two declared modules of different names are given different
\* identifiers under tsickle_declare_module.
C29_MangledNamesDiffer ==
    \A t, u \in FirstModuleVisits :
        sourceFile[externsTrace[t].at].name.text
            # sourceFile[externsTrace[u].at].name.text
        => ChildIdentifiers(t) \cap ChildIdentifiers(u) = {}

\* The piece is the stub of the type of that qualified name or the line of
\* one of its members.
IsOutputOfType(piece, qualifiedName) ==
    \/ IsStubOf(piece, qualifiedName)
    \/ StartsWith(piece.text, "\n" \o qualifiedName \o ".")
    \/ StartsWith(piece.text, qualifiedName \o ".")

\* The piece declares the variable of that declaration.
IsOutputOfVariable(piece, d) ==
    piece.text = (IF d.scope = <<>> THEN "var " ELSE "")
                     \o QualifiedName(d) \o ";\n"

IsBlackListedName(d) ==
    /\ d.name \in CLOSURE_EXTERNS_BLACKLIST
    /\ InNamespaces(d)
    /\ ExternsVisits(d.at[1])

\* C22: a class or interface of a name of CLOSURE_EXTERNS_BLACKLIST gives no
\* output (no stub, no member line) at the root and inside any namespace,
\* and a variable declarator of such a name gives none at any depth.
C22_BlackListedNamesSkipped ==
    \A d \in DeclarationSet(IsBlackListedName) :
        /\ IsTypeDeclaration(d)
           => ~Some(EmittedAt(d),
                    LAMBDA p : IsOutputOfType(p, QualifiedName(d)))
        /\ d.kind = "VariableDeclaration"
           => ~Some(EmittedAt(d), LAMBDA p : IsOutputOfVariable(p, d))

\* The constructs of the statement that createExterns has no output form
\* for, in document order: members of classes and interfaces that are
\* neither properties of an identifier name, nor methods, nor constructors;
\* variable declarators whose name is a binding pattern; import-equals of
\* an external module reference; statements of a kind the visitor has no
\* case for.
RECURSIVE UnsupportedIn(_)
UnsupportedIn(node) ==
    IF node.kind = "ModuleDeclaration"
    THEN Flatten(MapSeq(node.body, LAMBDA stmt : UnsupportedIn(stmt)))
    ELSE IF node.kind \in {"ClassDeclaration", "InterfaceDeclaration"}
    THEN SelectSeq(node.members,
             LAMBDA m : /\ ~IsMethod(m)
                        /\ m.kind # "Constructor"
                        /\ ~(/\ m.kind \in {"PropertySignature",
                                            "PropertyDeclaration"}
                             /\ m.name.kind = "Identifier"))
    ELSE IF node.kind = "VariableStatement"
    THEN SelectSeq(node.declarations,
             LAMBDA decl : decl.name.kind # "Identifier")
    ELSE IF node.kind = "ImportEqualsDeclaration"
    THEN IF node.moduleReference.kind = "ExternalModuleReference"
         THEN <<node>> ELSE <<>>
    ELSE IF node.kind \in {"FunctionDeclaration", "EnumDeclaration",
                           "TypeAliasDeclaration"}
    THEN <<>>
    ELSE <<node>>

IsTodoComment(piece) ==
    \/ StartsWith(piece.text, "\n/* TODO: ")
    \/ StartsWith(piece.text, "\n// TODO(tsickle): ")

\* C24: a visit of createExterns to a statement holding unsupported
\* constructs writes one TODO comment for each of them and adds no
\* diagnostic.
C24_UnsupportedGivesTodo ==
    \A t \in 1 .. Len(externsTrace) :
        LET unsupported == UnsupportedIn(sourceFile[externsTrace[t].at])
        IN unsupported # <<>>
           => /\ Count(externsTrace[t].output, IsTodoComment) = Len(unsupported)
              /\ externsTrace[t].diagnostics = <<>>

(***************************************************************************)
(* SpecEscape: the transformer on a class with a member whose source text  *)
(* ends up in a comment of the member-type-declaration: a property of a    *)
(* name that is no Closure property name, or an index signature.  The      *)
(* text is any string of up to MaxTextLen characters among a slash, a      *)
(* star and a letter.                                                      *)
(***************************************************************************)
MaxTextLen == 4

MemberTexts == StringsOver({"/", "*", "x"}, MaxTextLen)

\* class C { 'complex name': string; }      class C { p: string; [k]: string; }
EscapeClasses ==
    {ClassDeclaration(Identifier("C"), {}, <<>>,
         <<Member("PropertyDeclaration", StringLiteral("complex name"), {},
                  <<>>, FALSE, "string", text)>>) : text \in MemberTexts}
    \cup
    {ClassDeclaration(Identifier("C"), {}, <<>>,
         <<Member("PropertyDeclaration", Identifier("p"), {}, <<>>, FALSE,
                  "string", "p: string;"),
           Member("IndexSignature", NoName, {}, <<>>, FALSE,
                  "string", text)>>) : text \in MemberTexts}

InitEscape ==
    /\ \E decl \in EscapeClasses : sourceFile = <<decl>>
    /\ fileName = "a.ts"
    /\ host \in {h \in Hosts : /\ h.module = "CommonJS"
                               /\ ~h.convertIndexImportShorthand
                               /\ ~h.untyped /\ ~h.logWarning}
    /\ InitTransformer

NextEscape ==
    \/ VisitClassDeclaration
    \/ InsertForwardDeclares

SpecEscape == InitEscape /\ [][NextEscape]_vars

Contains(str, pat) ==
    \E k \in 1 .. Len(str) - Len(pat) + 1 :
        SubSeq(str, k, k + Len(pat) - 1) = pat

\* The member whose text is embedded, and the text embedded in the comment
\* of the member-type-declaration the visit gave back.
EscapedMember == sourceFile[1].members[Len(sourceFile[1].members)]

EscapedText(t) ==
    LET children == trace[t].nodes[2].thenStatement
        comment == children[Len(children)].trailingComments[1].text
        prefix == IF EscapedMember.kind = "IndexSignature"
                  THEN " Skipping unhandled member: "
                  ELSE " Skipping unnamed member:\n"
    IN SubSeq(comment, Len(prefix) + 1, Len(comment))

\* C28: the text escapeForComment gives holds neither "/*" nor "*/", is as
\* long as the text given, is the text given when that holds neither of
\* the two, and is left as it is by a second application.
C28_EscapeForComment ==
    \A t \in 1 .. Len(trace) :
        LET str == EscapedMember.text
            escaped == EscapedText(t)
        IN /\ ~Contains(escaped, "/*")
           /\ ~Contains(escaped, "*/")
           /\ Len(escaped) = Len(str)
           /\ (~Contains(str, "/*") /\ ~Contains(str, "*/")) => escaped = str
           /\ escapeForComment(escaped) = escaped

\* C28 witness: a text holding both "/*" and "*/", overlapping, has been
\* escaped into a comment.
C28_Witness ==
    /\ Len(trace) = 1
    /\ EscapedMember.text = "/*/"
    /\ EscapedText(1) = "__/"

\* The piece is a function stub, `function <name>(...) {}` or
\* `<qualified name> = function(...) {};`, and the name it is given to.
IsFunctionStub(piece) ==
    \/ StartsWith(piece.text, "function ")
    \/ Contains(piece.text, " = function(")

StubbedName(piece) ==
    LET paren == CHOOSE k \in 1 .. Len(piece.text) :
                     /\ CharAt(piece.text, k) = "("
                     /\ \A j \in 1 .. k - 1 : CharAt(piece.text, j) # "("
    IN IF StartsWith(piece.text, "function ")
       THEN SubSeq(piece.text, Len("function ") + 1, paren - 1)
       ELSE SubSeq(piece.text, 1, paren - Len(" = function") - 1)

\* C30: in the output, no qualified name is given a function stub more than
\* once, also when several merged declarations of a class or interface
\* hold a method of the same name and static-ness.
C30_OneStubPerQualifiedName ==
    \A i, j \in 1 .. Len(output) :
        (/\ i < j
         /\ IsFunctionStub(output[i])
         /\ IsFunctionStub(output[j]))
        => StubbedName(output[i]) # StubbedName(output[j])

\* The declarations of namespaces: modules of an identifier name other
\* than `global`, in a scope of namespaces, that createExterns visited.
IsNamespaceDeclaration(d) ==
    /\ d.kind = "ModuleDeclaration"
    /\ ~StartsWith(d.name, "\"")
    /\ InNamespaces(d)
    /\ ExternsVisits(d.at[1])

\* The piece declares the namespace object of that qualified name.
IsNamespaceObject(piece, d) ==
    piece.text = (IF d.scope = <<>> THEN "var " ELSE "")
                     \o QualifiedName(d) \o " = {};\n"

\* The declarations whose lines show the namespace they were written
\* under: variables of an identifier name (not of a binding pattern),
\* classes and interfaces.
IsWrittenUnderNamespace(d) ==
    /\ InNamespaces(d)
    /\ ExternsVisits(d.at[1])
    /\ d.name \notin CLOSURE_EXTERNS_BLACKLIST
    /\ \/ IsTypeDeclaration(d)
       \/ /\ d.kind = "VariableDeclaration"
          /\ ~StartsWith(d.name, "{")

\* C27: a module declaration named `global` emits no declaration and its
\* body is written under the empty namespace; the namespace object of any
\* other module of an identifier name is declared, after a @const comment,
\* exactly once per symbol, on the first declaration of the symbol; the
\* body of every declaration of the namespace is written under the
\* extended namespace.
C27_NamespaceObjectOncePerSymbol ==
    ExternsDone
    => /\ ~Some(output, LAMBDA p : EndsWith(p.text, "global = {};\n"))
       /\ \A d \in DeclarationSet(IsNamespaceDeclaration) :
              /\ Count(output, LAMBDA p : IsNamespaceObject(p, d)) = 1
              /\ LET first == SymbolDeclarations(d.scope, d.name)[1]
                     pieces == EmittedAt(first)
                 IN \E k \in 2 .. Len(pieces) :
                        /\ IsNamespaceObject(pieces[k], d)
                        /\ pieces[k - 1].text = "/** @const */\n"
       /\ \A d \in DeclarationSet(IsWrittenUnderNamespace) :
              IF IsTypeDeclaration(d)
              THEN \A line \in MemberLines(d) :
                       Some(EmittedAt(d), LAMBDA p : StartsWith(p.text, line))
              ELSE Some(EmittedAt(d), LAMBDA p : IsOutputOfVariable(p, d))

\* The children of the member-type-declaration that declare
\* <className>.prototype.<name>.
PrototypeDeclarations(ifStmt, name) ==
    SelectSeq(ifStmt.thenStatement,
        LAMBDA child :
            /\ child.kind = "ExpressionStatement"
            /\ child.expression.kind = "PropertyAccessExpression"
            /\ child.expression.name.text = name
            /\ child.expression.expression.kind = "PropertyAccessExpression")

\* The tags of the comments of the statement.
CommentTags(stmt) ==
    Flatten(MapSeq(stmt.leadingComments, LAMBDA c : c.tags))

IsClassWithParameterProperties(node) ==
    /\ node.kind = "ClassDeclaration"
    /\ ~IsTopLevelAmbient(node)
    /\ node.name.kind = "Identifier"
    /\ FirstConstructorProperties(node) # <<>>

\* C25: the member-type-declaration of a class is made from the class as
\* it was before its constructor was visited: the statement of each
\* parameter property of the first constructor carries the tags of the
\* parameter's own comment, while the parameter properties of the
\* rewritten class have lost their comments; the member-type-declaration
\* is the next sibling of the rewritten class.
C25_MemberTypeDeclarationBeforeConstructor ==
    \A i \in Visited :
        IsClassWithParameterProperties(sourceFile[i])
        => /\ HasMemberTypeDeclaration(i, FirstConstructorProperties(sourceFile[i]))
           /\ \A k \in 1 .. Len(FirstConstructorProperties(sourceFile[i])) :
                  LET param == FirstConstructorProperties(sourceFile[i])[k]
                      decls == PrototypeDeclarations(Output(i)[2], param.name.text)
                  IN \E d \in 1 .. Len(decls) :
                         \A n \in 1 .. Len(getJSDoc(param)) :
                             Some(CommentTags(decls[d]),
                                 LAMBDA tag : tag = getJSDoc(param)[n])
           /\ \A k \in 1 .. Len(ParameterPropertiesOf(Output(i)[1])) :
                  getJSDoc(ParameterPropertiesOf(Output(i)[1])[k]) = <<>>

\* C25 witness: a class whose first constructor has the parameter property
\* x, with a @deprecated comment, has been transformed: the comment is gone
\* from the constructor and its tag stands on C.prototype.x.
C25_Witness ==
    \E i \in Visited :
        /\ IsClassWithParameterProperties(sourceFile[i])
        /\ FirstConstructorProperties(sourceFile[i])[1] = ParamX
        /\ Len(Output(i)) = 2
        /\ LET decls == PrototypeDeclarations(Output(i)[2], "x")
           IN /\ Len(decls) = 1
              /\ Some(CommentTags(decls[1]), LAMBDA tag : tag.tagName = "deprecated")
        /\ ParameterPropertiesOf(Output(i)[1])[1].jsdoc = <<>>

\* What a member-type-declaration is expected to hold, in order: the
\* static properties, the instance properties, the parameter properties of
\* the first constructor, the unrecognized members, the abstract (or
\* interface) methods that have a name; each group in member order.
ExpectedChildren(typeDecl) ==
    LET isProperty(m) == m.kind \in {"PropertyDeclaration", "PropertySignature"}
        isStatic(m) == "static" \in m.modifiers
        isAbstract(m) ==
            /\ IsMethodMember(m)
            /\ \/ "abstract" \in m.modifiers
               \/ typeDecl.kind = "InterfaceDeclaration"
        group(name, members) ==
            MapSeq(members, LAMBDA m : [group |-> name, member |-> m])
    IN group("static", SelectSeq(typeDecl.members,
                 LAMBDA m : isProperty(m) /\ isStatic(m)))
       \o group("instance", SelectSeq(typeDecl.members,
                 LAMBDA m : isProperty(m) /\ ~isStatic(m)))
       \o group("instance", FirstConstructorProperties(typeDecl))
       \o group("unhandled", SelectSeq(typeDecl.members,
                 LAMBDA m : /\ ~isProperty(m) /\ ~IsMethodMember(m)
                            /\ m.kind # "Constructor"))
       \o group("method", SelectSeq(typeDecl.members,
                 LAMBDA m : isAbstract(m) /\ propertyName(m) # ""))

IsClassNameAccess(expr, className) ==
    expr.kind = "Identifier" /\ expr.text = className

IsPrototypeAccess(expr, className) ==
    /\ expr.kind = "PropertyAccessExpression"
    /\ expr.name.text = "prototype"
    /\ IsClassNameAccess(expr.expression, className)

\* The child is the statement expected for the member.
IsChildFor(child, expected, className) ==
    LET m == expected.member
    IN IF expected.group = "unhandled"
       THEN /\ child.kind = "NotEmittedStatement"
            /\ StartsWith(child.trailingComments[1].text,
                          " Skipping unhandled member: ")
       ELSE IF expected.group = "method"
       THEN /\ child.kind = "ExpressionStatement"
            /\ child.expression.kind = "Assignment"
            /\ child.expression.left.name.text = propertyName(m)
            /\ IsPrototypeAccess(child.expression.left.expression, className)
       ELSE IF propertyName(m) = ""
       THEN /\ child.kind = "NotEmittedStatement"
            /\ StartsWith(child.trailingComments[1].text,
                          " Skipping unnamed member:")
       ELSE /\ child.kind = "ExpressionStatement"
            /\ child.expression.kind = "PropertyAccessExpression"
            /\ child.expression.name.text = propertyName(m)
            /\ IF expected.group = "static"
               THEN IsClassNameAccess(child.expression.expression, className)
               ELSE IsPrototypeAccess(child.expression.expression, className)

\* C26: in a member-type-declaration the static properties are declared on
\* <ClassName>, the instance properties and the parameter properties of
\* the first constructor on <ClassName>.prototype, and the children stand
\* in the order static properties, instance properties, parameter
\* properties, comments for unrecognized members, abstract or interface
\* methods, each group in member order.
C26_MemberTypeDeclarationLayout ==
    \A i \in Visited :
        (/\ sourceFile[i].kind \in {"ClassDeclaration", "InterfaceDeclaration"}
         /\ IfStatements(Output(i)) # <<>>)
        => LET children == IfStatements(Output(i))[1].thenStatement
               expected == ExpectedChildren(sourceFile[i])
           IN /\ Len(IfStatements(Output(i))) = 1
              /\ Len(children) = Len(expected)
              /\ \A k \in 1 .. Len(expected) :
                     IsChildFor(children[k], expected[k],
                                sourceFile[i].name.text)

\* C26 witness: class C { p: string; static s: number; } has been
\* transformed, and its member-type-declaration holds C.s, then
\* C.prototype.p.
C26_Witness ==
    \E i \in Visited :
        /\ sourceFile[i].kind = "ClassDeclaration"
        /\ Len(sourceFile[i].members) = 2
        /\ sourceFile[i].members[1].name = Identifier("p")
        /\ sourceFile[i].members[2].name = Identifier("s")
        /\ "static" \in sourceFile[i].members[2].modifiers
        /\ IfStatements(Output(i)) # <<>>
        /\ LET children == IfStatements(Output(i))[1].thenStatement
           IN /\ Len(children) = 2
              /\ children[1].expression.name.text = "s"
              /\ IsClassNameAccess(children[1].expression.expression, "C")
              /\ children[2].expression.name.text = "p"
              /\ IsPrototypeAccess(children[2].expression.expression, "C")

(***************************************************************************)
(* SpecErrors: the transformer and createExterns on a file a.ts whose      *)
(* statements are taken among declarations that raise a hard error (an     *)
(* interface without a symbol, abstract classes with abstract methods of   *)
(* a computed name, declared classes and functions without a name) and     *)
(* declarations that raise none.                                           *)
(***************************************************************************)
AnonymousAbstract ==
    Member("MethodDeclaration", ComputedPropertyName("[k]"), {"abstract"}, <<>>,
           FALSE, "void", "abstract [k](): void;")

AbstractAm ==
    Member("MethodDeclaration", Identifier("am"), {"abstract"}, <<ParamA>>,
           FALSE, "void", "abstract am(a: number): void;")

PropertyP ==
    Member("PropertyDeclaration", Identifier("p"), {}, <<>>, FALSE,
           "string", "p: string;")

\* abstract class C { ... }
ErrorClasses ==
    {ClassDeclaration(Identifier("C"), {"abstract"}, <<>>, members) :
        members \in {<<AnonymousAbstract>>,
                     <<AnonymousAbstract, AbstractAm>>,
                     <<AbstractAm, AnonymousAbstract>>,
                     <<PropertyP, AnonymousAbstract>>,
                     <<AnonymousAbstract, AnonymousAbstract>>,
                     <<AbstractAm>>}}

\* interface I { p: string; } without a symbol;  declare class {}
\* declare function (): void;
ErrorStatements ==
    ErrorClasses
        \cup {InterfaceDeclaration(Identifier("I"), {}, <<>>,
                  <<PropertySignature(Identifier("p"), {}, "string")>>, NoSymbol),
              ClassDeclaration(NoName, {"declare"}, <<>>, <<>>),
              FunctionSignature(NoName, <<>>, "void"),
              LogStatement, DeclaredV}

InitErrors ==
    /\ sourceFile \in SeqsUpTo(ErrorStatements, MaxStmts) \ {<<>>}
    /\ fileName = "a.ts"
    /\ host \in {h \in Hosts : /\ h.module = "CommonJS"
                               /\ ~h.convertIndexImportShorthand
                               /\ ~h.untyped /\ ~h.logWarning}
    /\ InitTransformer

NextErrors ==
    \/ VisitAmbient
    \/ VisitClassDeclaration
    \/ VisitInterfaceDeclaration
    \/ VisitExpressionStatement
    \/ InsertForwardDeclares
    \/ ExternsStatement

SpecErrors == InitErrors /\ [][NextErrors]_vars

IsAnonymousAbstract(m) ==
    /\ IsMethodMember(m)
    /\ "abstract" \in m.modifiers
    /\ propertyName(m) = ""

\* The hard errors the transformer is to report on a statement.
HardErrors(node) ==
    IF IsTopLevelAmbient(node) THEN <<>>
    ELSE IF node.kind = "InterfaceDeclaration"
    THEN IF node.symbol.kind = "undefined"
         THEN <<"interface with no symbol">> ELSE <<>>
    ELSE IF node.kind = "ClassDeclaration"
    THEN MapSeq(SelectSeq(node.members, IsAnonymousAbstract),
                LAMBDA m : "anonymous abstract function")
    ELSE <<>>

\* The hard errors createExterns is to report on a statement it visits.
ExternsHardErrors(node) ==
    IF node.kind \in {"ClassDeclaration", "InterfaceDeclaration"}
       /\ node.name.kind = "undefined"
    THEN <<"anonymous type in externs">>
    ELSE IF node.kind = "FunctionDeclaration" /\ node.name.kind = "undefined"
    THEN <<"anonymous function in externs">>
    ELSE <<>>

ErrorDiagnostics(messages) ==
    MapSeq(messages, LAMBDA m : [messageText |-> m, category |-> "Error",
                                 code |-> ZeroCode])

\* The places of the ambient statements of the file, in order.
AmbientPlaces ==
    LET places == [i \in 1 .. Len(sourceFile) |-> i]
    IN SelectSeq(places, LAMBDA i : IsTopLevelAmbient(sourceFile[i]))

\* The class without its abstract methods of a computed name.
WithoutAnonymousAbstract(classDecl) ==
    [classDecl EXCEPT !.members =
        SelectSeq(classDecl.members, LAMBDA m : ~IsAnonymousAbstract(m))]

\* The members of the class are declared as they are for the class
\* without its failing members.
MembersAsIfAbsent(i) ==
    LET absent == createMemberTypeDeclaration(
                      WithoutAnonymousAbstract(sourceFile[i]))
        children == IF IfStatements(Output(i)) = <<>> THEN <<>>
                    ELSE IfStatements(Output(i))[1].thenStatement
    IN /\ Output(i) # <<>>
       /\ Output(i)[1].kind = "ClassDeclaration"
       /\ children = IF absent.kind = "null" THEN <<>>
                     ELSE absent.thenStatement

\* C23: every hard error adds exactly one diagnostic of category Error and
\* code 0 to the list of its pass; the diagnostics and the output recorded
\* earlier stay as they were; and the pass goes on: the members after a
\* failing member are declared as if it were not there, every statement
\* is passed, and the statements that raise no error are emitted.
C23_HardErrorsDoNotHalt ==
    /\ diagnostics =
           Flatten([i \in Visited |-> ErrorDiagnostics(HardErrors(sourceFile[i]))])
    /\ externsDiagnostics =
           Flatten([t \in 1 .. Len(externsVisited) |->
               ErrorDiagnostics(ExternsHardErrors(sourceFile[externsVisited[t]]))])
    /\ output = Flatten([t \in 1 .. Len(externsTrace) |-> externsTrace[t].output])
    /\ pc = "done" => Len(trace) = Len(sourceFile)
    /\ ExternsDone => externsVisited = AmbientPlaces
    /\ \A i \in Visited :
           /\ Emitted(i)
           /\ (sourceFile[i].kind = "ClassDeclaration"
               /\ ~IsTopLevelAmbient(sourceFile[i])) => MembersAsIfAbsent(i)
           /\ HardErrors(sourceFile[i]) = <<>> => Output(i) # <<>>
    /\ \A t \in 1 .. Len(externsTrace) :
           (ExternsHardErrors(sourceFile[externsTrace[t].at]) = <<>>)
               <=> (externsTrace[t].output # <<>>)

\* C23 witness: both passes are through a file whose first statement is
\* the class with a failing method before the method am, and whose second
\* statement is a declared function without a name: each pass reported one
\* error, and am is declared on the prototype.
C23_Witness ==
    /\ pc = "done"
    /\ ExternsDone
    /\ Len(sourceFile) = 2
    /\ sourceFile[1].kind = "ClassDeclaration"
    /\ sourceFile[1].members = <<AnonymousAbstract, AbstractAm>>
    /\ sourceFile[2].kind = "FunctionDeclaration"
    /\ Len(diagnostics) = 1
    /\ Len(externsDiagnostics) = 1
    /\ Len(IfStatements(Output(1))) = 1
    /\ Len(IfStatements(Output(1))[1].thenStatement) = 1
    /\ IfStatements(Output(1))[1].thenStatement[1].expression.left.name.text = "am"
    /\ Output(2) = <<sourceFile[2]>>

====
